---------------------------- MODULE Spec2Model ----------------------------
(***************************************************************************)
(* A model of the EV bet calculator (src/src/main.py): row ingestion from  *)
(* the MATCHBET worksheet, aggregation into the per-sport odds cache, the   *)
(* expected-value computation and the odds comparison, the normalisation   *)
(* of tournament names and the statistics panel, and the start-up /         *)
(* preload / refresh life cycle of the Qt application.                      *)
(*                                                                         *)
(* Representation of Python values                                          *)
(*   str            a tuple of one-character strings, <<"W","i","n">>       *)
(*   float / int    a record [k, n, d]:                                     *)
(*                    k = "fin"  the rational n/d, d > 0, in lowest terms   *)
(*                    k = "inf"  n = 1 (+inf) or n = -1 (-inf), d = 0       *)
(*                    k = "nan"  n = identity of the float object, d = 0:   *)
(*                               a dict finds a NaN key by object identity  *)
(*                               only, because nan == nan is False          *)
(*                    k = "int"  the integer n, d = 1                       *)
(*   None           [k |-> "None", n |-> 0, d |-> 0]                        *)
(* Finite float arithmetic is exact rational arithmetic.                    *)
(***************************************************************************)
EXTENDS Integers, Sequences, FiniteSets, TLC

VARIABLES
    p_stage,   \* pipeline: "raw", "fetched", "cached", "viewed"
    p_ss,      \* pipeline: the spreadsheet handed to fetch_matchbet_data
    p_ret,     \* pipeline: what fetch_matchbet_data returned
    p_cache,   \* pipeline: what process_bets_to_cache returned
    p_view,    \* pipeline: the last table fill / comparison computed
    s_stage,   \* statistics: "title", "once", "twice", "data", "shown"
    s_title,   \* statistics: the title handed to normalize_tournament_name
    s_norm,    \* statistics: what normalize_tournament_name returned, call by call
    s_data,    \* statistics: MainWindow.matchbet_data
    s_panel,   \* statistics: what show_statistics_panel made of it
    pc,            \* main(): "connect", "after_loop", "exit", "dlg_exec", "app_exec"
    attempts,      \* main(): iterations of the connection loop made
    slept,         \* main(): seconds spent in time.sleep
    spreadsheet,   \* main(): the spreadsheet is open (not None)
    startup_error, \* main(): the "Startup Error" box was shown
    win,           \* the MainWindow
    dlg_open,      \* the PreloadDialog is executing
    pw,            \* the PreloadWorker: its position, matchbet_data and cache
    pt_running,    \* preload_thread.isRunning()
    timer,         \* the 60 s single-shot timer: "none", "armed", "fired"
    pq,            \* PreloadWorker.finished signals queued for the main thread
    main,          \* the main thread: "idle", or "timeout_wait" inside
                   \* done(False, "Preloading timed out") at preload_thread.wait()
    boxes,         \* "Preload Failed" message boxes open (each runs an event loop)
    timed_out,     \* the time-out has shown its "Preload Failed" box
    refreshes,     \* the RefreshWorkers whose _on_refresh_done has not run
    last_done      \* history: the last completion handled

pvars == <<p_stage, p_ss, p_ret, p_cache, p_view>>

svars == <<s_stage, s_title, s_norm, s_data, s_panel>>

avars == <<pc, attempts, slept, spreadsheet, startup_error, win, dlg_open, pw,
           pt_running, timer, pq, main, boxes, timed_out, refreshes, last_done>>

vars == <<pvars, svars, avars, svars>>

-----------------------------------------------------------------------------
(* Bounds of the model *)

MaxRows == 2       \* rows of the raw range in the pipeline specification
MaxRefresh == 2    \* RefreshWorkers in flight at once
MaxWords == 3      \* words of a tournament title in the statistics specification
MaxBets == 2       \* bets of matchbet_data in the statistics specification

-----------------------------------------------------------------------------
(* Python str *)

EmptyText == <<>>

LowerChars == <<"a","b","c","d","e","f","g","h","i","j","k","l","m",
                "n","o","p","q","r","s","t","u","v","w","x","y","z">>
UpperChars == <<"A","B","C","D","E","F","G","H","I","J","K","L","M",
                "N","O","P","Q","R","S","T","U","V","W","X","Y","Z">>
DigitChars == <<"0","1","2","3","4","5","6","7","8","9">>

IsSpace(c) == c = " "

LowerChar(c) ==
    IF \E i \in 1..26 : UpperChars[i] = c
    THEN LowerChars[CHOOSE i \in 1..26 : UpperChars[i] = c]
    ELSE c

UpperChar(c) ==
    IF \E i \in 1..26 : LowerChars[i] = c
    THEN UpperChars[CHOOSE i \in 1..26 : LowerChars[i] = c]
    ELSE c

\* str.lower(), str.upper()
lower(s) == [i \in 1..Len(s) |-> LowerChar(s[i])]
upper(s) == [i \in 1..Len(s) |-> UpperChar(s[i])]

RECURSIVE LStrip(_)
LStrip(s) ==
    IF s = <<>> THEN s
    ELSE IF IsSpace(Head(s)) THEN LStrip(Tail(s)) ELSE s

RECURSIVE RStrip(_)
RStrip(s) ==
    IF s = <<>> THEN s
    ELSE IF IsSpace(s[Len(s)]) THEN RStrip(SubSeq(s, 1, Len(s) - 1)) ELSE s

\* str.strip()
strip(s) == RStrip(LStrip(s))

\* str.replace(a, b) for one-character a and b
replace(s, a, b) == [i \in 1..Len(s) |-> IF s[i] = a THEN b ELSE s[i]]

\* "sub in s" for str
Contains(s, sub) ==
    \E i \in 0..(Len(s) - Len(sub)) : SubSeq(s, i + 1, i + Len(sub)) = sub

-----------------------------------------------------------------------------
(* Python float, int and None *)

None == [k |-> "None", n |-> 0, d |-> 0]

Abs(x) == IF x < 0 THEN -x ELSE x

RECURSIVE GCD(_, _)
GCD(a, b) == IF b = 0 THEN a ELSE GCD(b, a % b)

Fin(n, d) ==
    LET g == GCD(Abs(n), d)
    IN  [k |-> "fin", n |-> n \div g, d |-> d \div g]

Inf(sgn) == [k |-> "inf", n |-> sgn, d |-> 0]
NaN(id)  == [k |-> "nan", n |-> id, d |-> 0]
PyInt(i) == [k |-> "int", n |-> i, d |-> 1]

\* what arithmetic on None raises
TypeError == [k |-> "TypeError", n |-> 0, d |-> 0]

IsNone(v) == v.k = "None"

\* a < b on floats: every comparison with a NaN is False
FloatLt(a, b) ==
    IF a.k = "nan" \/ b.k = "nan" THEN FALSE
    ELSE IF a.k = "inf" THEN a.n = -1 /\ ~(b.k = "inf" /\ b.n = -1)
    ELSE IF b.k = "inf" THEN b.n = 1
    ELSE LET g == GCD(a.d, b.d)
         IN  a.n * (b.d \div g) < b.n * (a.d \div g)

\* a * b on floats
FloatMul(a, b) ==
    IF IsNone(a) \/ IsNone(b) \/ a = TypeError \/ b = TypeError THEN TypeError
    ELSE IF a.k = "nan" \/ b.k = "nan" THEN NaN(0)
    ELSE IF a.k = "inf" \/ b.k = "inf" THEN
        IF a.n = 0 \/ b.n = 0 THEN NaN(0)
        ELSE Inf(IF (a.n < 0) = (b.n < 0) THEN 1 ELSE -1)
    ELSE Fin(a.n * b.n, a.d * b.d)

\* a - 1.0 on floats
FloatSubOne(a) ==
    IF IsNone(a) \/ a = TypeError THEN TypeError
    ELSE IF a.k = "fin" THEN Fin(a.n - a.d, a.d) ELSE IF a.k = "nan" THEN NaN(0) ELSE a

RECURSIVE Pow10(_)
Pow10(e) == IF e = 0 THEN 1 ELSE 10 * Pow10(e - 1)

DigitVal(c) == (CHOOSE i \in 1..10 : DigitChars[i] = c) - 1

AllDigits(s) == \A i \in 1..Len(s) : \E j \in 1..10 : DigitChars[j] = s[i]

RECURSIVE DigitsVal(_)
DigitsVal(s) ==
    IF s = <<>> THEN 0
    ELSE 10 * DigitsVal(SubSeq(s, 1, Len(s) - 1)) + DigitVal(s[Len(s)])

T_inf      == <<"i","n","f">>
T_infinity == <<"i","n","f","i","n","i","t","y">>
T_nan      == <<"n","a","n">>

\* float(s) for a str s: [ok |-> FALSE] stands for ValueError.  The texts of
\* the model hold no exponent ("e") and no digit separator ("_").
NotAFloat == [ok |-> FALSE, val |-> None]

\* the digits ip before and fp after the decimal point
FloatOfParts(sgn, ip, fp) ==
    IF AllDigits(ip) /\ AllDigits(fp) /\ Len(ip) + Len(fp) >= 1
    THEN [ok |-> TRUE, val |-> Fin(sgn * DigitsVal(ip \o fp), Pow10(Len(fp)))]
    ELSE NotAFloat

\* a decimal text b with its decimal point at dp (Len(b) + 1: it has none)
FloatOfDecimal(sgn, b, dp) ==
    FloatOfParts(sgn, SubSeq(b, 1, dp - 1), SubSeq(b, dp + 1, Len(b)))

\* the text b after the sign
FloatOfUnsigned(sgn, b) ==
    IF lower(b) \in {T_inf, T_infinity} THEN [ok |-> TRUE, val |-> Inf(sgn)]
    ELSE IF lower(b) = T_nan THEN [ok |-> TRUE, val |-> NaN(0)]
    ELSE IF Cardinality({i \in 1..Len(b) : b[i] = "."}) > 1 THEN NotAFloat
    ELSE IF \E i \in 1..Len(b) : b[i] = "."
    THEN FloatOfDecimal(sgn, b, CHOOSE i \in 1..Len(b) : b[i] = ".")
    ELSE FloatOfDecimal(sgn, b, Len(b) + 1)

\* the text t without surrounding whitespace
FloatOfStripped(t) ==
    IF t # <<>> /\ Head(t) = "-" THEN FloatOfUnsigned(-1, Tail(t))
    ELSE IF t # <<>> /\ Head(t) = "+" THEN FloatOfUnsigned(1, Tail(t))
    ELSE FloatOfUnsigned(1, t)

ParseFloat(s) == FloatOfStripped(strip(s))

\* floor(a / b) for b > 0
FloorDiv(a, b) == IF a >= 0 THEN a \div b ELSE -((-a + b - 1) \div b)

\* the integer nearest to a/b, b > 0.  An exact tie goes to the even
\* neighbour; Python decides a tie by the binary value of the double, so the
\* inputs of the model hold no decimal tie.
RoundDiv(a, b) ==
    LET q == FloorDiv(a, b)
        r == a - q * b
    IN  IF 2 * r < b THEN q
        ELSE IF 2 * r > b THEN q + 1
        ELSE IF q % 2 = 0 THEN q ELSE q + 1

OddsDigits == 4

\* round(x, nd) on a float: a non-finite x comes back unchanged
PyRound(x, nd) ==
    IF x.k = "fin" THEN Fin(RoundDiv(x.n * Pow10(nd), x.d), Pow10(nd))
    ELSE IF x.k = "nan" THEN NaN(0) ELSE x

\* float(v) raises TypeError for None; a float converts to itself
round_odds_key(v) ==
    IF IsNone(v) THEN None ELSE PyRound(v, OddsDigits)


-----------------------------------------------------------------------------
(* list.sort() / sorted() on a list of fewer than 64 floats, as CPython does *)
(* it: the leading run is found (and reversed when strictly descending),    *)
(* the rest is inserted by binary insertion, every comparison being "<".    *)

RECURSIVE RunEnd(_, _, _)
RunEnd(a, i, desc) ==
    IF i > Len(a) THEN i - 1
    ELSE IF FloatLt(a[i], a[i - 1]) = desc THEN RunEnd(a, i + 1, desc)
    ELSE i - 1

Reverse(a) == [i \in 1..Len(a) |-> a[Len(a) + 1 - i]]

RECURSIVE BinarySearch(_, _, _, _)
BinarySearch(a, pivot, l, r) ==
    IF l >= r THEN l
    ELSE LET p == l + ((r - l) \div 2)
         IN  IF FloatLt(pivot, a[p + 1]) THEN BinarySearch(a, pivot, l, p)
             ELSE BinarySearch(a, pivot, p + 1, r)

RECURSIVE BinarySort(_, _)
BinarySort(a, start) ==
    IF start > Len(a) THEN a
    ELSE LET pivot == a[start]
             l     == BinarySearch(a, pivot, 0, start - 1)
             moved == SubSeq(a, 1, l) \o <<pivot>> \o SubSeq(a, l + 1, start - 1)
                        \o SubSeq(a, start + 1, Len(a))
         IN  BinarySort(moved, start + 1)

sorted(a) ==
    IF Len(a) < 2 THEN a
    ELSE LET desc == FloatLt(a[2], a[1])
             n    == RunEnd(a, 3, desc)
             a1   == IF desc THEN Reverse(SubSeq(a, 1, n)) \o SubSeq(a, n + 1, Len(a))
                     ELSE a
         IN  BinarySort(a1, n + 1)

-----------------------------------------------------------------------------
(* Tournament names.  Regular expressions of the re module, as far as normalize_tournament_name *)
(* uses them.  A pattern is a sequence of items; an item is one of           *)
(*   "b"      \b                                                             *)
(*   "start"  ^                                                              *)
(*   "lit"    a literal text (kept in lower case: the patterns with letters  *)
(*            are all applied with re.IGNORECASE)                            *)
(*   "cls"    a character class repeated min..max times, greedy; max = 0    *)
(*            stands for no upper limit                                      *)
(*   "grp"    a group of alternatives (each a pattern), optional or not      *)
(*   "nb"     a negative lookbehind (?<!...) of the pattern alts[1]          *)
(* The characters are those of the model's texts (ASCII).                    *)

Letters == {LowerChars[i] : i \in 1..26} \cup {UpperChars[i] : i \in 1..26}
Digits == {DigitChars[i] : i \in 1..10}
\* the characters of \w
WordChars == Letters \cup Digits \cup {"_"}

Item(t, lit, cls, min, max, alts, opt) ==
    [t |-> t, lit |-> lit, cls |-> cls, min |-> min, max |-> max, alts |-> alts, opt |-> opt]

Boundary == Item("b", <<>>, {}, 0, 0, <<>>, FALSE)
Start == Item("start", <<>>, {}, 0, 0, <<>>, FALSE)
Lit(text) == Item("lit", text, {}, 0, 0, <<>>, FALSE)
Cls(cls, min, max) == Item("cls", <<>>, cls, min, max, <<>>, FALSE)
Grp(alts) == Item("grp", <<>>, {}, 0, 0, alts, FALSE)
Opt(alts) == Item("grp", <<>>, {}, 0, 0, alts, TRUE)
NotBehind(pattern) == Item("nb", <<>>, {}, 0, 0, <<pattern>>, FALSE)

\* \s+, \s*, \d+
Spaces1 == Cls({" "}, 1, 0)
Spaces0 == Cls({" "}, 0, 0)
Digits1 == Cls(Digits, 1, 0)

\* \b between s[i-1] and s[i]
AtBoundary(s, i) ==
    (i > 1 /\ s[i - 1] \in WordChars) # (i <= Len(s) /\ s[i] \in WordChars)

\* the number of characters of cls from s[i] on, at most max
RECURSIVE RunLen(_, _, _, _)
RunLen(s, i, cls, max) ==
    IF max = 0 \/ i > Len(s) THEN 0
    ELSE IF s[i] \in cls THEN 1 + RunLen(s, i + 1, cls, max - 1) ELSE 0

\* Ends(pattern, s, i): the positions after a match of pattern that starts
\* at s[i], in the order in which the backtracking matcher tries them (the
\* first one is the match it reports).
RECURSIVE Ends(_, _, _)
RECURSIVE ItemEnds(_, _, _)
RECURSIVE AltEnds(_, _, _)
RECURSIVE ThenEnds(_, _, _)

\* a greedy repetition of r characters at most and min at least
ClsEnds(i, r, min) ==
    IF r < min THEN <<>> ELSE [k \in 1..(r - min + 1) |-> i + r - k + 1]

ItemEnds(it, s, i) ==
    CASE it.t = "b" -> IF AtBoundary(s, i) THEN <<i>> ELSE <<>>
      [] it.t = "start" -> IF i = 1 THEN <<i>> ELSE <<>>
      [] it.t = "lit" ->
            IF /\ i + Len(it.lit) - 1 <= Len(s)
               /\ lower(SubSeq(s, i, i + Len(it.lit) - 1)) = it.lit
            THEN <<i + Len(it.lit)>> ELSE <<>>
      [] it.t = "cls" ->
            ClsEnds(i, RunLen(s, i, it.cls, IF it.max = 0 THEN Len(s) ELSE it.max), it.min)
      [] it.t = "grp" -> AltEnds(it.alts, s, i) \o (IF it.opt THEN <<i>> ELSE <<>>)
      [] it.t = "nb" ->
            IF \E j \in 1..i : \E k \in DOMAIN Ends(it.alts[1], s, j) :
                   Ends(it.alts[1], s, j)[k] = i
            THEN <<>> ELSE <<i>>

AltEnds(alts, s, i) ==
    IF alts = <<>> THEN <<>>
    ELSE Ends(Head(alts), s, i) \o AltEnds(Tail(alts), s, i)

\* the rest of the pattern after each of the positions ps
ThenEnds(ps, rest, s) ==
    IF ps = <<>> THEN <<>>
    ELSE Ends(rest, s, Head(ps)) \o ThenEnds(Tail(ps), rest, s)

Ends(pattern, s, i) ==
    IF pattern = <<>> THEN <<i>>
    ELSE ThenEnds(ItemEnds(Head(pattern), s, i), Tail(pattern), s)

\* re.sub(pattern, repl, s) from s[i] on, for a pattern that matches no
\* empty text: the leftmost matches, one after the other, are replaced
RECURSIVE SubFrom(_, _, _, _)
SubFrom(pattern, repl, s, i) ==
    IF i > Len(s) THEN <<>>
    ELSE IF Ends(pattern, s, i) # <<>>
    THEN repl \o SubFrom(pattern, repl, s, Ends(pattern, s, i)[1])
    ELSE <<s[i]>> \o SubFrom(pattern, repl, s, i + 1)

re_sub(pattern, repl, s) == SubFrom(pattern, repl, s, 1)

\* str.replace(old, new) for a non-empty old
RECURSIVE str_replace(_, _, _)
str_replace(s, old, new) ==
    IF Len(s) < Len(old) THEN s
    ELSE IF SubSeq(s, 1, Len(old)) = old
    THEN new \o str_replace(SubSeq(s, Len(old) + 1, Len(s)), old, new)
    ELSE <<Head(s)>> \o str_replace(Tail(s), old, new)

\* s.split(sep)[0]
RECURSIVE SplitFirst(_, _)
SplitFirst(s, sep) ==
    IF Len(s) < Len(sep) THEN s
    ELSE IF SubSeq(s, 1, Len(sep)) = sep THEN <<>>
    ELSE <<Head(s)>> \o SplitFirst(Tail(s), sep)

\* s.strip(chars)
RECURSIVE strip_chars(_, _)
strip_chars(s, chars) ==
    IF s = <<>> THEN s
    ELSE IF Head(s) \in chars THEN strip_chars(Tail(s), chars)
    ELSE IF s[Len(s)] \in chars THEN strip_chars(SubSeq(s, 1, Len(s) - 1), chars)
    ELSE s

\* the patterns of step 3, in the order of the list
patterns == <<
    \* \bSeason\s+\d+\b
    <<Boundary, Lit(<<"s","e","a","s","o","n">>), Spaces1, Digits1, Boundary>>,
    \* \bSeries\s+\d+\b
    <<Boundary, Lit(<<"s","e","r","i","e","s">>), Spaces1, Digits1, Boundary>>,
    \* \bVol\.?\s*\d+\b
    <<Boundary, Lit(<<"v","o","l">>), Opt(<<<<Lit(<<".">>)>>>>), Spaces0, Digits1,
      Boundary>>,
    \* \bPart\s+\d+\b
    <<Boundary, Lit(<<"p","a","r","t">>), Spaces1, Digits1, Boundary>>,
    \* \bStage\s+\d+\b
    <<Boundary, Lit(<<"s","t","a","g","e">>), Spaces1, Digits1, Boundary>>,
    \* \bPhase\s+\d+\b
    <<Boundary, Lit(<<"p","h","a","s","e">>), Spaces1, Digits1, Boundary>>,
    \* \bSplit\s+\d+\b
    <<Boundary, Lit(<<"s","p","l","i","t">>), Spaces1, Digits1, Boundary>>,
    \* \bGroup\s+[A-Za-z0-9]+\b
    <<Boundary, Lit(<<"g","r","o","u","p">>), Spaces1, Cls(Letters \cup Digits, 1, 0),
      Boundary>>,
    \* #\d+
    <<Lit(<<"#">>), Digits1>>,
    \* \bOS\b
    <<Boundary, Lit(<<"o","s">>), Boundary>>,
    \* \b(Asia|Americas|Europe)\s+RMR(\s+[A-Z])?\b
    <<Boundary,
      Grp(<<<<Lit(<<"a","s","i","a">>)>>, <<Lit(<<"a","m","e","r","i","c","a","s">>)>>,
          <<Lit(<<"e","u","r","o","p","e">>)>>>>),
      Spaces1, Lit(<<"r","m","r">>), Opt(<<<<Spaces1, Cls(Letters, 1, 1)>>>>),
      Boundary>>,
    \* \bRMR\b
    <<Boundary, Lit(<<"r","m","r">>), Boundary>>,
    \* \bS\d+\b
    <<Boundary, Lit(<<"s">>), Digits1, Boundary>>,
    \* (?<!^)\b(Europe|EU|NA|SA|Asia|Americas|Oceania|CIS|European|South American|North American|Pacific|APAC)\b
    <<NotBehind(<<Start>>), Boundary,
      Grp(<<<<Lit(<<"e","u","r","o","p","e">>)>>, <<Lit(<<"e","u">>)>>,
          <<Lit(<<"n","a">>)>>, <<Lit(<<"s","a">>)>>, <<Lit(<<"a","s","i","a">>)>>,
          <<Lit(<<"a","m","e","r","i","c","a","s">>)>>,
          <<Lit(<<"o","c","e","a","n","i","a">>)>>, <<Lit(<<"c","i","s">>)>>,
          <<Lit(<<"e","u","r","o","p","e","a","n">>)>>,
          <<Lit(<<"s","o","u","t","h"," ","a","m","e","r","i","c","a","n">>)>>,
          <<Lit(<<"n","o","r","t","h"," ","a","m","e","r","i","c","a","n">>)>>,
          <<Lit(<<"p","a","c","i","f","i","c">>)>>, <<Lit(<<"a","p","a","c">>)>>>>),
      Boundary>>,
    \* \bLCQ\b
    <<Boundary, Lit(<<"l","c","q">>), Boundary>>,
    \* \b(Play-In|Global Finals|Contenders|CQ|Finals?|Groups?|Playoffs?)\b
    <<Boundary,
      Grp(<<<<Lit(<<"p","l","a","y","-","i","n">>)>>,
          <<Lit(<<"g","l","o","b","a","l"," ","f","i","n","a","l","s">>)>>,
          <<Lit(<<"c","o","n","t","e","n","d","e","r","s">>)>>, <<Lit(<<"c","q">>)>>,
          <<Lit(<<"f","i","n","a","l">>), Opt(<<<<Lit(<<"s">>)>>>>)>>,
          <<Lit(<<"g","r","o","u","p">>), Opt(<<<<Lit(<<"s">>)>>>>)>>,
          <<Lit(<<"p","l","a","y","o","f","f">>), Opt(<<<<Lit(<<"s">>)>>>>)>>>>),
      Boundary>>,
    \* \b\d+(?:st|nd|rd|th)?\s+Division\b
    <<Boundary, Digits1,
      Opt(<<<<Lit(<<"s","t">>)>>, <<Lit(<<"n","d">>)>>, <<Lit(<<"r","d">>)>>,
          <<Lit(<<"t","h">>)>>>>),
      Spaces1, Lit(<<"d","i","v","i","s","i","o","n">>), Boundary>>,
    \* \bDivision\s+\d+\b
    <<Boundary, Lit(<<"d","i","v","i","s","i","o","n">>), Spaces1, Digits1, Boundary>>,
    \* \bSeries\b
    <<Boundary, Lit(<<"s","e","r","i","e","s">>), Boundary>>,
    \* (?<!^)(?<!\bIEM\s)\b(Atlanta|Katowice|Bangkok|Raleigh|Lisbon)\b
    <<NotBehind(<<Start>>),
      NotBehind(<<Boundary, Lit(<<"i","e","m">>), Cls({" "}, 1, 1)>>), Boundary,
      Grp(<<<<Lit(<<"a","t","l","a","n","t","a">>)>>,
          <<Lit(<<"k","a","t","o","w","i","c","e">>)>>,
          <<Lit(<<"b","a","n","g","k","o","k">>)>>,
          <<Lit(<<"r","a","l","e","i","g","h">>)>>,
          <<Lit(<<"l","i","s","b","o","n">>)>>>>),
      Boundary>>,
    \* \b(Spring|Summer|Fall|Winter)\b
    <<Boundary,
      Grp(<<<<Lit(<<"s","p","r","i","n","g">>)>>, <<Lit(<<"s","u","m","m","e","r">>)>>,
          <<Lit(<<"f","a","l","l">>)>>, <<Lit(<<"w","i","n","t","e","r">>)>>>>),
      Boundary>>,
    \* \b(I|II|III|IV|V|VI|VII|VIII|IX|X)\b
    <<Boundary,
      Grp(<<<<Lit(<<"i">>)>>, <<Lit(<<"i","i">>)>>, <<Lit(<<"i","i","i">>)>>,
          <<Lit(<<"i","v">>)>>, <<Lit(<<"v">>)>>, <<Lit(<<"v","i">>)>>,
          <<Lit(<<"v","i","i">>)>>, <<Lit(<<"v","i","i","i">>)>>, <<Lit(<<"i","x">>)>>,
          <<Lit(<<"x">>)>>>>),
      Boundary>>
  >>

\* \b(19|20)\d{2}\b
YearPattern == <<Boundary, Grp(<<<<Lit(<<"1","9">>)>>,
    <<Lit(<<"2","0">>)>>>>), Cls(Digits, 2, 2), Boundary>>

\* \b\d{1,3}\b
NumberPattern == <<Boundary, Cls(Digits, 1, 3), Boundary>>

\* the for loop over the patterns ps
RECURSIVE RemovePatterns(_, _)
RemovePatterns(ps, name) ==
    IF ps = <<>> THEN name
    ELSE RemovePatterns(Tail(ps), re_sub(Head(ps), <<>>, name))

\* if sep in name: name = name.split(sep)[0]
CutAt(name, sep) == IF Contains(name, sep) THEN SplitFirst(name, sep) ELSE name

normalize_tournament_name(name) ==
    IF name = <<>> THEN <<>>
    ELSE strip_chars(
           re_sub(<<Spaces1>>, <<" ">>,
             re_sub(NumberPattern, <<>>,
               RemovePatterns(patterns,
                 re_sub(YearPattern, <<>>,
                   CutAt(CutAt(str_replace(name, <<"S","t","a","r","L","a","d","d","e","r"," ","S","S">>,
                       <<"S","t","a","r","L","a","d","d","e","r"," ","S","t","a","r","S","e","r","i","e","s">>),
                       <<"/","/">>), <<":"," ">>))))),
           {" ", "-"})


-----------------------------------------------------------------------------
(* Row ingestion *)

RowWidth == 8

\* PadRow without the padding
PadRow_none(r) == r

\* r + [""] * (8 - len(r)) when len(r) < 8
PadRow(r) ==
    IF Len(r) < RowWidth
    THEN r \o [i \in 1..(RowWidth - Len(r)) |-> EmptyText]
    ELSE r

\* The end of one iteration, odds being what float() made of the odds cell:
\* "skip" (continue) or "rec" (append the record).
RowChecked(sport, tournament, matchup, bet, live_status, odds, result) ==
    IF sport = EmptyText THEN [kind |-> "skip", rec |-> <<>>]
    ELSE IF result = EmptyText THEN [kind |-> "skip", rec |-> <<>>]
    ELSE IF ~odds.ok THEN [kind |-> "skip", rec |-> <<>>]
    ELSE [kind |-> "rec",
          rec  |-> <<sport, tournament, matchup, bet, live_status, odds.val, result>>]

\* the cells of the padded row r stripped, and the odds cell parsed
RowCells(r) ==
    IF Len(r) < RowWidth THEN [kind |-> "raise", rec |-> <<>>]   \* IndexError
    ELSE RowChecked(strip(r[1]), strip(r[2]), strip(r[3]), strip(r[4]), strip(r[5]),
                    ParseFloat(replace(strip(r[6]), ",", ".")), strip(r[8]))

\* One iteration of the loop over the raw rows: "raise" (an exception that
\* is not the ValueError of float), "skip" (continue) or "rec" (append).
RowOutcome(r0) == RowCells(PadRow(r0))

\* the for loop of fetch_matchbet_data: [exc, val]
RECURSIVE ParseRows(_, _)

\* the loop after the iteration on the first row of raw had outcome o
AfterRow(o, raw, data) ==
    IF o.kind = "raise" THEN [exc |-> TRUE, val |-> <<>>]
    ELSE IF o.kind = "skip" THEN ParseRows(Tail(raw), data)
    ELSE ParseRows(Tail(raw), Append(data, o.rec))

ParseRows(raw, data) ==
    IF raw = <<>> THEN [exc |-> FALSE, val |-> data]
    ELSE AfterRow(RowOutcome(Head(raw)), raw, data)

\* The body of the outer try.  A spreadsheet is [wsOk, getOk, batchOk, rows]:
\* whether worksheet(), ws.get() and ws.batch_get() succeed, and the range.
FetchBody(ss) ==
    IF ~ss.wsOk THEN [exc |-> TRUE, val |-> <<>>]
    ELSE IF ~ss.getOk /\ ~ss.batchOk THEN [exc |-> TRUE, val |-> <<>>]
    ELSE ParseRows(ss.rows, <<>>)

\* ReturnEmptyOnError letting the exception through
ReturnEmptyOnError_raise(r) == r

\* except Exception: return [] applied to the outcome r of the body
ReturnEmptyOnError(r) == IF r.exc THEN [exc |-> FALSE, val |-> <<>>] ELSE r

\* [exc |-> an exception leaves the function, val |-> the list returned]
fetch_matchbet_data(ss) == ReturnEmptyOnError(FetchBody(ss))

-----------------------------------------------------------------------------
(* Aggregation engine *)

T_LIVE == <<"L","I","V","E">>
T_NOT  == <<"N","O","T">>
T_win  == <<"w","i","n">>

\* The object a float key is: the NaN that round() returns for the i-th bet
\* is an object of its own.
KeyObject(k, i) == IF k.k = "nan" THEN NaN(i) ELSE k

ZeroStats(k) == [k |-> k, lw |-> 0, lt |-> 0, pw |-> 0, pt |-> 0]

\* agg.setdefault(sport, {}): agg is the dict of dicts in insertion order,
\* a sequence of [sport, buckets], buckets a sequence of [k, lw, lt, pw, pt]
EnsureSport(agg, sport) ==
    IF \E j \in 1..Len(agg) : agg[j].sport = sport THEN agg
    ELSE Append(agg, [sport |-> sport, buckets |-> <<>>])

\* b.setdefault(k, {all four counters 0})
EnsureKey(b, k) ==
    IF \E j \in 1..Len(b) : b[j].k = k THEN b
    ELSE Append(b, ZeroStats(k))

\* is_live without the test for "NOT"
is_live_any(live_status) == Contains(upper(live_status), T_LIVE)

\* is_win without lower()
is_win_exact(result) == result = T_win

is_live(live_status) ==
    /\ Contains(upper(live_status), T_LIVE)
    /\ ~Contains(upper(live_status), T_NOT)

is_win(result) == lower(result) = T_win

\* CountAt counting the won bets only
CountAt_wins(b, bi, live, w) ==
    IF live
    THEN [b EXCEPT ![bi].lt = @ + w, ![bi].lw = @ + w]
    ELSE [b EXCEPT ![bi].pt = @ + w, ![bi].pw = @ + w]

\* the counters of bucket bi after one bet with w wins (0 or 1)
CountAt(b, bi, live, w) ==
    IF live
    THEN [b EXCEPT ![bi].lt = @ + 1, ![bi].lw = @ + w]
    ELSE [b EXCEPT ![bi].pt = @ + 1, ![bi].pw = @ + w]

CountBet(b, k, live, won) ==
    CountAt(b, CHOOSE j \in 1..Len(b) : b[j].k = k, live, IF won THEN 1 ELSE 0)

\* the bet counted under key k in the buckets of its sport
AddBet(agg, bet, k) ==
    IF IsNone(k) THEN agg
    ELSE [agg EXCEPT ![CHOOSE j \in 1..Len(agg) : agg[j].sport = bet[1]].buckets =
                        CountBet(EnsureKey(@, k), k, is_live(bet[5]), is_win(bet[7]))]

\* One iteration of the first loop of process_bets_to_cache, on the i-th bet
AggStep(agg, bet, i) ==
    AddBet(EnsureSport(agg, bet[1]), bet, KeyObject(round_odds_key(bet[6]), i))

RECURSIVE Aggregate(_, _, _)
Aggregate(bets, i, agg) ==
    IF i > Len(bets) THEN agg
    ELSE Aggregate(bets, i + 1, AggStep(agg, bets[i], i))

\* wins / total, or None
WinRate(wins, total) == IF total > 0 THEN Fin(wins, total) ELSE None

\* CountOrNone reporting 0 for an empty category
CountOrNone_zero(total) == PyInt(total)

\* total if total > 0 else None
CountOrNone(total) == IF total > 0 THEN PyInt(total) ELSE None

\* index[k]: (live_wr, prem_wr, live_cnt, prem_cnt)
IndexTuple(st) ==
    <<WinRate(st.lw, st.lt), WinRate(st.pw, st.pt),
      CountOrNone(st.lt), CountOrNone(st.pt)>>

\* tup: (k, live_wr, prem_wr, live_cnt, prem_cnt)
RowTuple(st) == <<st.k>> \o IndexTuple(st)

\* the statistics of key k
StatsOf(buckets, k) == buckets[CHOOSE j \in 1..Len(buckets) : buckets[j].k = k]

\* rows and index over the sorted keys
EntryOf(buckets, keys) ==
    [rows  |-> [j \in 1..Len(keys) |-> RowTuple(StatsOf(buckets, keys[j]))],
     index |-> [k \in {keys[j] : j \in 1..Len(keys)} |-> IndexTuple(StatsOf(buckets, k))]]

\* SheetCacheEntry(rows, index) of one sport
CacheEntry(buckets) ==
    EntryOf(buckets, sorted([j \in 1..Len(buckets) |-> buckets[j].k]))

SportEntry(sport, e) == [sport |-> sport, rows |-> e.rows, index |-> e.index]

\* the second loop of process_bets_to_cache
CacheOf(agg) == [j \in 1..Len(agg) |-> SportEntry(agg[j].sport, CacheEntry(agg[j].buckets))]

\* The cache: the dict sport -> SheetCacheEntry in insertion order, a
\* sequence of [sport, rows, index].
process_bets_to_cache(bets) == CacheOf(Aggregate(bets, 1, <<>>))

EmptyCache == <<>>

CacheSports(cache) == {cache[j].sport : j \in 1..Len(cache)}
CacheGet(cache, s) == cache[CHOOSE j \in 1..Len(cache) : cache[j].sport = s]

-----------------------------------------------------------------------------
(* Display texts.  A formatted number is [t, k, n]: t the shape of the      *)
(* text, k the kind of number and n its value in hundredths: "1.85" is     *)
(* [t |-> "f2", k |-> "fin", n |-> 185], "11.00%" is                        *)
(* [t |-> "pct", k |-> "fin", n |-> 1100].                                  *)

NAText == [t |-> "N/A", k |-> "", n |-> 0]

Hundred == Fin(100, 1)

\* the digits f"{x:.2f}" prints
TwoDecimals(shape, x) ==
    IF x.k = "fin" THEN [t |-> shape, k |-> "fin", n |-> RoundDiv(x.n * 100, x.d)]
    ELSE IF x.k = "inf" THEN [t |-> shape, k |-> "inf", n |-> x.n]
    ELSE IF x.k = "nan" THEN [t |-> shape, k |-> "nan", n |-> 0]
    ELSE [t |-> shape, k |-> "TypeError", n |-> 0]

\* f"{x:.2f}"
Fmt2(x) == TwoDecimals("f2", x)

\* f"{x*100:.2f}%"
FmtPct(x) == TwoDecimals("pct", FloatMul(x, Hundred))

\* 'N/A' if c is None else str(c)
FmtCount(c) == IF IsNone(c) THEN NAText ELSE [t |-> "int", k |-> "fin", n |-> c.n]

fmt_wr(wr) == IF IsNone(wr) THEN NAText ELSE FmtPct(wr)

\* (text, value) for the value ev
EvCell(ev) == <<FmtPct(ev), ev>>

\* (text, value)
fmt_ev(wr, odds) ==
    IF IsNone(wr) \/ IsNone(odds) THEN <<NAText, None>>
    ELSE EvCell(FloatSubOne(FloatMul(wr, odds)))

BetTypes == {"Live", "Not Live"}

\* the cells of a row whose EV cell is ev = (text, value)
TableCells(odds, live_wr, prem_wr, ev) ==
    [odds |-> Fmt2(odds), live |-> fmt_wr(live_wr), prem |-> fmt_wr(prem_wr),
     ev |-> ev[1], ev_val |-> ev[2]]

\* One table row of fill_table: the four cell texts and the sort value of
\* the EV cell.  The order in which the view shows the rows is not modelled.
TableRow(row, bet_type) ==
    TableCells(row[1], row[2], row[3],
               fmt_ev(IF bet_type = "Live" THEN row[2] ELSE row[3], row[1]))

fill_table(rows, bet_type) == [j \in 1..Len(rows) |-> TableRow(rows[j], bet_type)]

-----------------------------------------------------------------------------
(* Odds comparison.  The text of compare_result is a record                 *)
(*   kind    which message it is                                            *)
(*   label   the bet-type label in the message ("" when it has none)        *)
(*   sport   the sport in the message ("" as a text when it has none)       *)
(*   better  "a", "b", "equal" or ""                                        *)
(*   named   the odds the message names as not found / missing a WR         *)
(*   lines   the "Bet o EV: e (WR: w, Count: c)" lines, in order            *)
(*   notes   the odds of the "has only 1 count" notes, in order             *)

CompareText(kind, label, sport, better, named, lines, notes) ==
    [kind |-> kind, label |-> label, sport |-> sport, better |-> better,
     named |-> named, lines |-> lines, notes |-> notes]

BlankText  == CompareText("blank", "", EmptyText, "", <<>>, <<>>, <<>>)
PromptText == CompareText("prompt", "", EmptyText, "", <<>>, <<>>, <<>>)

EvLine(odds, ev, wr, cnt) ==
    [odds |-> Fmt2(odds), ev |-> FmtPct(ev), wr |-> FmtPct(wr), cnt |-> FmtCount(cnt)]

\* "Live" if bet_type == "Live" else "Prematch"
label_type(bet_type) == IF bet_type = "Live" THEN "Live" ELSE "Prematch"

\* the verdict on the scores wr * odds of the two bets
Better(score_a, score_b) ==
    IF FloatLt(score_b, score_a) THEN "a"
    ELSE IF FloatLt(score_a, score_b) THEN "b"
    ELSE "equal"

\* the "has only 1 count" note of one bet
CountNote(odds, count) == IF count = PyInt(1) THEN <<Fmt2(odds)>> ELSE <<>>

render_compare(odds_a, odds_b, wr_a, wr_b, ev_a, ev_b, sport, bet_type, count_a, count_b) ==
    IF IsNone(wr_a) /\ IsNone(wr_b)
    THEN CompareText("both_missing_wr", label_type(bet_type), EmptyText, "",
                     <<Fmt2(odds_a), Fmt2(odds_b)>>, <<>>, <<>>)
    ELSE IF IsNone(wr_a)
    THEN CompareText("missing_wr", label_type(bet_type), EmptyText, "",
                     <<Fmt2(odds_a)>>, <<EvLine(odds_b, ev_b, wr_b, count_b)>>, <<>>)
    ELSE IF IsNone(wr_b)
    THEN CompareText("missing_wr", label_type(bet_type), EmptyText, "",
                     <<Fmt2(odds_b)>>, <<EvLine(odds_a, ev_a, wr_a, count_a)>>, <<>>)
    ELSE CompareText("verdict", bet_type, sport,
                     Better(FloatMul(wr_a, odds_a), FloatMul(wr_b, odds_b)), <<>>,
                     <<EvLine(odds_a, ev_a, wr_a, count_a),
                       EvLine(odds_b, ev_b, wr_b, count_b)>>,
                     CountNote(odds_a, count_a) \o CountNote(odds_b, count_b))

\* The locals of recompute_comparison_inline for the entry texts text_a,
\* text_b: the branch taken, the operands and every EV it computes, and the
\* text it sets (by itself or through render_compare).  In the branch with
\* one odds not found, the found side's wr_p, po, ev_p, cnt_p stand under
\* that side's names and the other side's are None.
Locals(branch, odds_a, odds_b, wr_a, wr_b, ev_a, ev_b, cnt_a, cnt_b, text) ==
    [branch |-> branch, odds_a |-> odds_a, odds_b |-> odds_b,
     wr_a |-> wr_a, wr_b |-> wr_b, ev_a |-> ev_a, ev_b |-> ev_b,
     cnt_a |-> cnt_a, cnt_b |-> cnt_b, text |-> text]

\* Select with the two bet types exchanged
Select_swapped(t, bet_type) == IF bet_type = "Live" THEN <<t[2], t[4]>> ELSE <<t[1], t[3]>>

\* (wr, cnt) of the bet type out of (live_wr, prem_wr, live_cnt, prem_cnt)
Select(t, bet_type) == IF bet_type = "Live" THEN <<t[1], t[3]>> ELSE <<t[2], t[4]>>

\* EvOrNone without the test for None
EvOrNone_always(wr, odds) == FloatSubOne(FloatMul(wr, odds))

\* wr * odds - 1 if wr is not None else None
EvOrNone(wr, odds) == IF IsNone(wr) THEN None ELSE FloatSubOne(FloatMul(wr, odds))

\* one odds found (present "A" or "B"), p its (wr_p, cnt_p), ev_p its EV
OneFound(present, odds_a, odds_b, p, ev_p, bet_type) ==
    IF IsNone(p[1])
    THEN IF present = "A"
         THEN Locals("one_not_found", odds_a, odds_b, None, None, None, None, p[2], None,
                     CompareText("not_found_no_wr", bet_type, EmptyText, "",
                                 <<Fmt2(odds_b), Fmt2(odds_a)>>, <<>>, <<>>))
         ELSE Locals("one_not_found", odds_a, odds_b, None, None, None, None, None, p[2],
                     CompareText("not_found_no_wr", bet_type, EmptyText, "",
                                 <<Fmt2(odds_a), Fmt2(odds_b)>>, <<>>, <<>>))
    ELSE IF present = "A"
         THEN Locals("one_not_found", odds_a, odds_b, p[1], None, ev_p, None, p[2], None,
                     CompareText("not_found_ev", "", EmptyText, "", <<Fmt2(odds_b)>>,
                                 <<EvLine(odds_a, ev_p, p[1], p[2])>>, <<>>))
         ELSE Locals("one_not_found", odds_a, odds_b, None, p[1], None, ev_p, None, p[2],
                     CompareText("not_found_ev", "", EmptyText, "", <<Fmt2(odds_a)>>,
                                 <<EvLine(odds_b, ev_p, p[1], p[2])>>, <<>>))

\* both odds found, a and b their (wr, cnt), ev_a and ev_b their EVs
BothFound(odds_a, odds_b, a, b, ev_a, ev_b, sport, bet_type) ==
    Locals("both_found", odds_a, odds_b, a[1], b[1], ev_a, ev_b, a[2], b[2],
           render_compare(odds_a, odds_b, a[1], b[1], ev_a, ev_b,
                          sport, bet_type, a[2], b[2]))

\* ra, rb = odds_index.get(k_a), odds_index.get(k_b) and what follows
Lookup(odds_a, odds_b, k_a, k_b, bet_type, odds_index, sport) ==
    IF k_a \notin DOMAIN odds_index /\ k_b \notin DOMAIN odds_index
    THEN Locals("both_not_found", odds_a, odds_b, None, None, None, None, None, None,
                CompareText("both_not_found", "", EmptyText, "",
                            <<Fmt2(odds_a), Fmt2(odds_b)>>, <<>>, <<>>))
    ELSE IF k_b \notin DOMAIN odds_index
    THEN OneFound("A", odds_a, odds_b, Select(odds_index[k_a], bet_type),
                  EvOrNone(Select(odds_index[k_a], bet_type)[1], odds_a), bet_type)
    ELSE IF k_a \notin DOMAIN odds_index
    THEN OneFound("B", odds_a, odds_b, Select(odds_index[k_b], bet_type),
                  EvOrNone(Select(odds_index[k_b], bet_type)[1], odds_b), bet_type)
    ELSE BothFound(odds_a, odds_b,
                   Select(odds_index[k_a], bet_type), Select(odds_index[k_b], bet_type),
                   EvOrNone(Select(odds_index[k_a], bet_type)[1], odds_a),
                   EvOrNone(Select(odds_index[k_b], bet_type)[1], odds_b),
                   sport, bet_type)

\* pa, pb: what float() made of the two entry texts
Parsed(pa, pb, bet_type, odds_index, sport) ==
    IF ~pa.ok \/ ~pb.ok
    THEN Locals("invalid", None, None, None, None, None, None, None, None, BlankText)
    ELSE Lookup(pa.val, pb.val, round_odds_key(pa.val), round_odds_key(pb.val),
                bet_type, odds_index, sport)

recompute_comparison_inline(text_a, text_b, bet_type, odds_index, sport) ==
    Parsed(ParseFloat(strip(text_a)), ParseFloat(strip(text_b)),
           bet_type, odds_index, sport)

-----------------------------------------------------------------------------
(* MainWindow.  The window is a record of its attributes and of the state   *)
(* of its widgets:                                                          *)
(*   created, visible      the object exists / is shown                     *)
(*   data_cache, matchbet_data, current_rows, odds_index                    *)
(*   sport_items, sport_current    sport_combo's items and current text     *)
(*   bettype                       bettype_combo's current text             *)
(*   entry_a, entry_b              the texts of the two odds entries        *)
(*   controls_enabled              what set_controls_enabled last set       *)
(*   table                         the rows of the table widget             *)
(*   compare_result                the text of the comparison label         *)
(*   status                        the status bar message                   *)
(* Window title, theme and cell colours are not modelled.                   *)

NoWindow ==
    [created |-> FALSE, visible |-> FALSE,
     data_cache |-> EmptyCache, matchbet_data |-> <<>>,
     current_rows |-> <<>>, odds_index |-> <<>>,
     sport_items |-> <<>>, sport_current |-> EmptyText,
     bettype |-> "Live", entry_a |-> EmptyText, entry_b |-> EmptyText,
     controls_enabled |-> TRUE, table |-> <<>>,
     compare_result |-> PromptText, status |-> "Ready"]

\* MainWindow(spreadsheet)
NewWindow == [NoWindow EXCEPT !.created = TRUE]

\* set_controls_enabled leaving the widgets as they are
set_controls_enabled_skip(w, enabled) == w

set_controls_enabled(w, enabled) == [w EXCEPT !.controls_enabled = enabled]

\* count_bets of get_sorted_sports: r[3] or 0 plus r[4] or 0 over the rows
RECURSIVE count_bets(_)
count_bets(rows) ==
    IF rows = <<>> THEN 0
    ELSE (IF IsNone(Head(rows)[4]) THEN 0 ELSE Head(rows)[4].n)
         + (IF IsNone(Head(rows)[5]) THEN 0 ELSE Head(rows)[5].n)
         + count_bets(Tail(rows))

\* sorted(cache.keys(), key=count_bets, reverse=True): descending by count,
\* sports of equal count in the order of the dict
get_sorted_sports(cache) ==
    LET n == Len(cache)
        c(j) == count_bets(cache[j].rows)
        pos(j) == 1 + Cardinality({i \in 1..n : c(i) > c(j)})
                    + Cardinality({i \in 1..(j - 1) : c(i) = c(j)})
    IN  [q \in 1..n |-> cache[CHOOSE j \in 1..n : pos(j) = q].sport]

\* self.recompute_comparison_inline()
Recompute(w) ==
    [w EXCEPT !.compare_result =
        recompute_comparison_inline(w.entry_a, w.entry_b, w.bettype,
                                    w.odds_index, w.sport_current).text]

\* current_rows, odds_index = entry.rows, entry.index; fill_table(...)
ShowEntry(w, sport) ==
    LET entry == CacheGet(w.data_cache, sport)
    IN  [w EXCEPT !.current_rows = entry.rows, !.odds_index = entry.index,
                  !.table = fill_table(entry.rows, w.bettype)]

\* float() of the text of a table cell written by f"{x:.2f}"
CellFloat(cell) ==
    IF cell.k = "fin" THEN Fin(cell.n, 100)
    ELSE IF cell.k = "inf" THEN Inf(cell.n)
    ELSE NaN(0)

\* parse_cell of update_ev_only: None for "N/A", else the percentage / 100
parse_cell(cell) ==
    IF cell = NAText THEN None
    ELSE LET x == CellFloat(cell)
         IN  IF x.k = "fin" THEN Fin(x.n, x.d * 100) ELSE x

\* the row with its EV cell set to ev = (text, value)
SetEvCell(row, ev) == [row EXCEPT !.ev = ev[1], !.ev_val = ev[2]]

\* one row of update_ev_only: its EV from the texts of its other cells
UpdateRow(row, bt) ==
    SetEvCell(row, fmt_ev(IF bt = "Live" THEN parse_cell(row.live)
                          ELSE parse_cell(row.prem),
                          CellFloat(row.odds)))

\* update_ev_only: the EV cell of every row recomputed from the cell texts
update_ev_only(w) ==
    Recompute([w EXCEPT !.table = [j \in 1..Len(w.table) |-> UpdateRow(w.table[j], w.bettype)]])

\* refresh_data(force): [w |-> the window after the call,
\*                       start |-> a RefreshWorker was started]
refresh_data(w, force) ==
    LET sheet == w.sport_current
    IN  IF ~force /\ sheet \in CacheSports(w.data_cache)
        THEN [w |-> [Recompute(ShowEntry(w, sheet)) EXCEPT !.status = "Loaded from cache"],
              start |-> FALSE]
        ELSE [w |-> [set_controls_enabled(w, FALSE) EXCEPT
                        !.status = "Refreshing all data..."],
              start |-> TRUE]

\* the "Refresh view" part of _on_refresh_done
RefreshView(w) ==
    IF w.sport_current \in CacheSports(w.data_cache)
    THEN Recompute(ShowEntry(w, w.sport_current))
    ELSE w

\* the sport combo refilled with items, signals blocked; current_sport is
\* the text it showed before
RefillCombo(w, items, current_sport) ==
    [w EXCEPT !.sport_items = items,
              !.sport_current = IF current_sport \in CacheSports(w.data_cache)
                                THEN current_sport
                                ELSE IF Len(items) > 0 THEN items[1]
                                ELSE EmptyText]

\* the "if ok and res" branch of _on_refresh_done
InstallRefresh(w, res) ==
    RefreshView(RefillCombo([w EXCEPT !.data_cache = res.cache,
                                      !.matchbet_data = res.data],
                            get_sorted_sports(res.cache), w.sport_current))

\* _on_refresh_done(thread, worker, ok, info, res): [w |-> the window after
\* the handler, dialog |-> it showed "Failed to load data"].  res is
\* [truthy, cache, data]: a (cache, data) tuple is truthy, None is not.
on_refresh_done(w, ok, res) ==
    [w |-> [set_controls_enabled(IF ok /\ res.truthy THEN InstallRefresh(w, res) ELSE w,
                                 TRUE)
              EXCEPT !.status = "Ready"],
     dialog |-> ~(ok /\ res.truthy)]

\* set_initial_cache after the combo is filled with sports
ShowFirst(w, sports) ==
    IF Len(sports) > 0
    THEN Recompute(ShowEntry([w EXCEPT !.sport_items = sports,
                                       !.sport_current = sports[1]], sports[1]))
    ELSE [w EXCEPT !.sport_items = sports, !.sport_current = EmptyText]

set_initial_cache(w, cache) ==
    ShowFirst([w EXCEPT !.data_cache = cache], get_sorted_sports(cache))

\* set_matchbet_data keeping the old list
set_matchbet_data_skip(w, data) == w

set_matchbet_data(w, data) == [w EXCEPT !.matchbet_data = data]

\* done(ok, msg) of main() with ok true, after dlg.accept()
preload_install(w, cache, data) ==
    [set_matchbet_data(set_initial_cache(w, cache), data) EXCEPT !.visible = TRUE]

-----------------------------------------------------------------------------
(* The statistics panel (show_statistics_panel).  stats is the dict of      *)
(* dicts in insertion order: a sequence of [sport, tourneys], tourneys a    *)
(* sequence of [name, wins, total].  The panel is a record                  *)
(*   stats       the local stats of the call                                *)
(*   total_bets  the number in the "Total Bets: n" label                    *)
(*   tree        the top-level items of the tree, in order; an item is      *)
(*               [text, count, wr, children], wr the text "x.y%" as a       *)
(*               number of tenths of a percent                              *)
(* Widths, alignments and the second, empty group box are not modelled.     *)

T_CStwo == <<"C","S","t","w","o">>
T_CS2   == <<"C","S","2">>

\* StatSport without the alias
StatSport_same(sport) == sport

\* if sport == "CStwo": sport = "CS2"
StatSport(sport) == IF sport = T_CStwo THEN T_CS2 ELSE sport

\* if sport not in stats: stats[sport] = {}
StatsEnsureSport(stats, sport) ==
    IF \E j \in 1..Len(stats) : stats[j].sport = sport THEN stats
    ELSE Append(stats, [sport |-> sport, tourneys |-> <<>>])

\* if norm_tourney not in stats[sport]: stats[sport][norm_tourney] = {0, 0}
StatsEnsureTourney(tourneys, norm_tourney) ==
    IF \E j \in 1..Len(tourneys) : tourneys[j].name = norm_tourney THEN tourneys
    ELSE Append(tourneys, [name |-> norm_tourney, wins |-> 0, total |-> 0])

\* ['total'] += 1, and ['wins'] += 1 for a win
StatsCount(tourneys, norm_tourney, won) ==
    [j \in 1..Len(tourneys) |->
        IF tourneys[j].name = norm_tourney
        THEN [tourneys[j] EXCEPT !.total = @ + 1, !.wins = IF won THEN @ + 1 ELSE @]
        ELSE tourneys[j]]

\* the end of an iteration whose sport and tournament are not empty
StatsAdd(stats, sport, norm_tourney, won) ==
    IF norm_tourney = <<>> THEN stats
    ELSE [j \in 1..Len(StatsEnsureSport(stats, sport)) |->
            IF StatsEnsureSport(stats, sport)[j].sport = sport
            THEN [StatsEnsureSport(stats, sport)[j] EXCEPT !.tourneys =
                     StatsCount(StatsEnsureTourney(@, norm_tourney), norm_tourney, won)]
            ELSE StatsEnsureSport(stats, sport)[j]]

\* one iteration of the loop over matchbet_data
StatsStep(stats, bet) ==
    IF bet[1] = <<>> THEN stats
    ELSE IF bet[2] = <<>> THEN stats
    ELSE StatsAdd(stats, StatSport(bet[1]), normalize_tournament_name(bet[2]),
                  lower(bet[7]) = T_win)

RECURSIVE StatsLoop(_, _)
StatsLoop(data, stats) ==
    IF data = <<>> THEN stats
    ELSE StatsLoop(Tail(data), StatsStep(stats, Head(data)))

\* sum(t[key] for t in items)
RECURSIVE SumOf(_, _)
SumOf(items, key) ==
    IF items = <<>> THEN 0 ELSE Head(items)[key] + SumOf(Tail(items), key)

\* sport_totals, in the order of stats
sport_totals(stats) ==
    [j \in 1..Len(stats) |->
        [sport |-> stats[j].sport, tourneys |-> stats[j].tourneys,
         wins |-> SumOf(stats[j].tourneys, "wins"),
         total |-> SumOf(stats[j].tourneys, "total")]]

\* x put into items, which are in descending order of total, behind the
\* items whose total is not smaller
RECURSIVE InsertByTotal(_, _)
InsertByTotal(items, x) ==
    IF items = <<>> THEN <<x>>
    ELSE IF Head(items).total >= x.total THEN <<Head(items)>> \o InsertByTotal(Tail(items), x)
    ELSE <<x>> \o items

\* sorted(items, key = the total, reverse = True): the sort is stable, items
\* of equal total keep their order
RECURSIVE SortedByTotal(_)
SortedByTotal(items) ==
    IF items = <<>> THEN <<>>
    ELSE InsertByTotal(SortedByTotal(SubSeq(items, 1, Len(items) - 1)), items[Len(items)])

\* f"{(wins / total * 100) if total > 0 else 0.0:.1f}%" in tenths of a percent
\* (no count of the model gives a tie in the last digit)
WrTenths(wins, total) == IF total > 0 THEN RoundDiv(wins * 1000, total) ELSE 0

TourneyItems(tourneys) ==
    [j \in 1..Len(tourneys) |->
        [text |-> tourneys[j].name, count |-> tourneys[j].total,
         wr |-> WrTenths(tourneys[j].wins, tourneys[j].total), children |-> <<>>]]

SportItems(totals) ==
    [j \in 1..Len(totals) |->
        [text |-> totals[j].sport, count |-> totals[j].total,
         wr |-> WrTenths(totals[j].wins, totals[j].total),
         children |-> TourneyItems(SortedByTotal(totals[j].tourneys))]]

\* the tree and the label made from stats
StatsPanel(stats) ==
    [stats |-> stats, total_bets |-> SumOf(sport_totals(stats), "total"),
     tree |-> SportItems(SortedByTotal(sport_totals(stats)))]

show_statistics_panel(matchbet_data) == StatsPanel(StatsLoop(matchbet_data, <<>>))

-----------------------------------------------------------------------------
(* The inputs of the model: cell texts, raw rows, entry texts *)

S_CS2  == <<"C","S","2">>
S_Dota == <<"D","o","t","a">>
S_pad  == <<" ","C","S","2">>
S_blank == <<" ">>

L_Live    == <<"L","i","v","e">>
L_NotLive == <<"N","o","t"," ","L","i","v","e">>

R_Win  == <<"W","i","n">>
R_win  == <<"w","i","n">>
R_Loss == <<"L","o","s","s">>

O_185c   == <<"1",",","8","5">>
O_185s   == <<" ","1",".","8","5"," ">>
O_185    == <<"1",".","8","5">>
O_185004 == <<"1",".","8","5","0","0","4">>
O_21     == <<"2",".","1">>
O_abc    == <<"a","b","c">>
O_inf    == <<"i","n","f">>
O_nan    == <<"n","a","n">>

FullRow(sport, live, odds, result) ==
    <<sport, EmptyText, EmptyText, EmptyText, live, odds, EmptyText, result>>

RowSet ==
    { FullRow(S_CS2, L_Live, O_185c, R_Win),
      FullRow(S_pad, L_NotLive, O_185s, R_Loss),
      FullRow(S_Dota, EmptyText, O_21, R_win),
      FullRow(S_CS2, L_Live, O_abc, R_Win),
      <<S_CS2, EmptyText, EmptyText, EmptyText, L_Live, O_21>>,
      FullRow(S_blank, L_Live, O_21, R_Win),
      FullRow(S_CS2, L_Live, O_inf, R_Loss),
      FullRow(S_CS2, L_Live, O_nan, R_Win),
      FullRow(S_CS2, L_Live, O_185004, R_Loss) }

RECURSIVE SeqsUpTo(_, _)
SeqsUpTo(S, n) ==
    IF n = 0 THEN {<<>>}
    ELSE LET shorter == SeqsUpTo(S, n - 1)
         IN  shorter \cup {Append(q, x) : q \in shorter, x \in S}

\* what the three calls on the spreadsheet can do
Outcomes ==
    { [wsOk |-> TRUE,  getOk |-> TRUE,  batchOk |-> TRUE],
      [wsOk |-> TRUE,  getOk |-> FALSE, batchOk |-> TRUE],
      [wsOk |-> TRUE,  getOk |-> FALSE, batchOk |-> FALSE],
      [wsOk |-> FALSE, getOk |-> TRUE,  batchOk |-> TRUE] }

Spreadsheet(o, rows) ==
    [wsOk |-> o.wsOk, getOk |-> o.getOk, batchOk |-> o.batchOk, rows |-> rows]

FetchFails(ss) == ~ss.wsOk \/ (~ss.getOk /\ ~ss.batchOk)

EntryTexts == { O_185, O_185004, O_inf }

NoView == [op |-> "none", sport |-> EmptyText, bet_type |-> "", rows |-> <<>>, table |-> <<>>,
           cmp |-> recompute_comparison_inline(EmptyText, EmptyText, "Live", <<>>, EmptyText)]

\* the words of the titles
W_2nd      == <<"2","n","d">>
W_Spring   == <<"S","p","r","i","n","g">>
W_Division == <<"D","i","v","i","s","i","o","n">>
W_ESL      == <<"E","S","L">>
W_21       == <<"2","1">>

TitleWords == { W_2nd, W_Spring, W_Division, W_ESL, W_21 }

\* " ".join(ws)
RECURSIVE JoinWords(_)
JoinWords(ws) ==
    IF ws = <<>> THEN <<>>
    ELSE IF Len(ws) = 1 THEN ws[1]
    ELSE ws[1] \o <<" ">> \o JoinWords(Tail(ws))

\* titles that take the other paths of normalize_tournament_name
N_StarLadder == <<"S","t","a","r","L","a","d","d","e","r"," ","S","S"," ","2">>
N_Blast      == <<"B","L","A","S","T",":"," ","C","Q">>
N_Galaxy     == <<"G","B"," ","/","/"," ","P","h","a","s","e"," ","4">>
N_Katowice   == <<"I","E","M"," ","K","a","t","o","w","i","c","e"," ","2","0","2","5">>
N_Europe     == <<"E","u","r","o","p","e"," ","E","U"," ","-">>

Titles ==
    { JoinWords(ws) : ws \in SeqsUpTo(TitleWords, MaxWords) }
        \cup { N_StarLadder, N_Blast, N_Galaxy, N_Katowice, N_Europe }

N_ESL2024 == <<"E","S","L"," ","2","0","2","4">>
N_ESL21   == <<"E","S","L"," ","2","1">>
N_2024    == <<"2","0","2","4">>
N_TI      == <<"T","I">>
R_WIN     == <<"W","I","N">>

\* a tuple of matchbet_data
Bet(sport, tournament, result) ==
    <<sport, tournament, EmptyText, EmptyText, L_Live, Fin(37, 20), result>>

StatBets ==
    { Bet(S_CS2, N_ESL2024, R_Win), Bet(T_CStwo, N_ESL21, R_Loss),
      Bet(S_CS2, EmptyText, R_Win), Bet(S_Dota, N_2024, R_Win),
      Bet(S_Dota, N_ESL21, R_win), Bet(S_CS2, N_TI, R_WIN) }

NoPanel == [stats |-> <<>>, total_bets |-> 0, tree |-> <<>>]

-----------------------------------------------------------------------------
(* The application: main(), the preload and the refreshes.  A handler of   *)
(* the main thread is one step.  The finished signals of the workers are    *)
(* queued to the main thread, which handles them in its event loops:        *)
(* dlg.exec(), app.exec() and the loop of an open message box.  The user    *)
(* acts on the main window only; closing the preload dialog or the main     *)
(* window by hand, the theme, the statistics and the data-table panels are  *)
(* not modelled.  pw.failed, the failed field of a refresh and last_done    *)
(* are history the program does not keep.                                   *)

max_retries == 3
RetryDelay == 2

NoWorker == [st |-> "none", matchbet_data |-> <<>>, cache |-> EmptyCache, failed |-> FALSE]

NoDone == [flow |-> "none", failed |-> FALSE, dialog |-> FALSE, installed |-> FALSE]

AInitial ==
    /\ pc = "connect"
    /\ attempts = 0
    /\ slept = 0
    /\ spreadsheet = FALSE
    /\ startup_error = FALSE
    /\ win = NoWindow
    /\ dlg_open = FALSE
    /\ pw = NoWorker
    /\ pt_running = FALSE
    /\ timer = "none"
    /\ pq = <<>>
    /\ main = "idle"
    /\ boxes = 0
    /\ timed_out = FALSE
    /\ refreshes = <<>>
    /\ last_done = NoDone

PIdle ==
    /\ p_stage = "raw"
    /\ p_ss = Spreadsheet([wsOk |-> TRUE, getOk |-> TRUE, batchOk |-> TRUE], <<>>)
    /\ p_ret = [exc |-> FALSE, val |-> <<>>]
    /\ p_cache = EmptyCache
    /\ p_view = NoView

\* the statistics specification has not started
SIdle ==
    /\ s_stage = "title"
    /\ s_title = EmptyText
    /\ s_norm = <<>>
    /\ s_data = <<>>
    /\ s_panel = NoPanel

Init == PIdle /\ SIdle /\ AInitial

\* the sheets the application finds when it fetches
AppRows ==
    { <<>>,
      <<FullRow(S_CS2, L_Live, O_185c, R_Win), FullRow(S_Dota, EmptyText, O_21, R_win)>>,
      <<FullRow(S_CS2, L_Live, O_185004, R_Loss), FullRow(S_CS2, L_Live, O_inf, R_Loss)>> }

AppSheets ==
    {Spreadsheet([wsOk |-> TRUE, getOk |-> TRUE, batchOk |-> TRUE], rows) : rows \in AppRows}
      \cup {Spreadsheet([wsOk |-> TRUE, getOk |-> FALSE, batchOk |-> FALSE], <<>>)}

\* the texts the user types into an odds entry
AppEntryTexts == {EmptyText, O_185}

\* SleepsAfter sleeping after every failed attempt
SleepsAfter_always(attempt) == TRUE

\* time.sleep(2) follows a failed attempt when attempt < max_retries - 1
SleepsAfter(attempt) == attempt < max_retries - 1

\* One iteration of the connection loop: authorize_client() and
\* client.open() succeed (break) or raise (sleep unless it was the last).
ConnectAttempt ==
    /\ pc = "connect"
    /\ \E ok \in BOOLEAN :
         IF ok
         THEN /\ spreadsheet' = TRUE
              /\ pc' = "after_loop"
              /\ slept' = slept
         ELSE /\ spreadsheet' = spreadsheet
              /\ slept' = IF SleepsAfter(attempts) THEN slept + RetryDelay ELSE slept
              /\ pc' = IF attempts + 1 < max_retries THEN "connect" ELSE "after_loop"
    /\ attempts' = attempts + 1
    /\ UNCHANGED <<pvars, svars, startup_error, win, dlg_open, pw, pt_running, timer, pq, main,
                   boxes, timed_out, refreshes, last_done>>

\* main() after the loop: the start-up error and return 1, or the window,
\* the preload worker and thread, the timer, and dlg.exec()
Startup ==
    /\ pc = "after_loop"
    /\ IF ~spreadsheet
       THEN /\ startup_error' = TRUE
            /\ pc' = "exit"
            /\ UNCHANGED <<win, dlg_open, pw, pt_running, timer>>
       ELSE /\ win' = NewWindow
            /\ pw' = [NoWorker EXCEPT !.st = "started"]
            /\ timer' = "armed"
            /\ pt_running' = TRUE
            /\ dlg_open' = TRUE
            /\ pc' = "dlg_exec"
            /\ UNCHANGED startup_error
    /\ UNCHANGED <<pvars, svars, attempts, slept, spreadsheet, pq, main, boxes, timed_out,
                   refreshes, last_done>>

\* PreloadWorker.run after the fetch returned r
Fetched(r, failed) ==
    IF r.exc
    THEN /\ pw' = [pw EXCEPT !.st = "returned", !.failed = TRUE]
         /\ pq' = Append(pq, [ok |-> FALSE])
    ELSE /\ pw' = [pw EXCEPT !.st = "fetched", !.matchbet_data = r.val,
                             !.failed = failed]
         /\ pq' = pq

\* PreloadWorker.run up to self.matchbet_data = fetch_matchbet_data(...)
PreloadFetch ==
    /\ pw.st = "started"
    /\ \E ss \in AppSheets :
         Fetched(fetch_matchbet_data(ss), FetchFails(ss))
    /\ UNCHANGED <<pvars, svars, pc, attempts, slept, spreadsheet, startup_error, win, dlg_open,
                   pt_running, timer, main, boxes, timed_out, refreshes, last_done>>

\* PreloadWorker.run from process_bets_to_cache to finished.emit(True, "")
PreloadProcess ==
    /\ pw.st = "fetched"
    /\ pw' = [pw EXCEPT !.st = "returned",
                        !.cache = process_bets_to_cache(pw.matchbet_data)]
    /\ pq' = Append(pq, [ok |-> TRUE])
    /\ UNCHANGED <<pvars, svars, pc, attempts, slept, spreadsheet, startup_error, win, dlg_open,
                   pt_running, timer, main, boxes, timed_out, refreshes, last_done>>

InEventLoop == pc \in {"dlg_exec", "app_exec"} /\ main = "idle"

\* done(ok, msg) called by the queued finished signal
PreloadDone ==
    /\ InEventLoop
    /\ pq # <<>>
    /\ pq' = Tail(pq)
    /\ pt_running' = FALSE
    /\ dlg_open' = FALSE
    /\ IF ~Head(pq).ok
       THEN /\ boxes' = boxes + 1
            /\ win' = win
            /\ last_done' = [flow |-> "preload", failed |-> pw.failed,
                             dialog |-> TRUE, installed |-> FALSE]
       ELSE /\ boxes' = boxes
            /\ win' = preload_install(win, pw.cache, pw.matchbet_data)
            /\ last_done' = [flow |-> "preload", failed |-> pw.failed,
                             dialog |-> FALSE, installed |-> TRUE]
    /\ UNCHANGED <<pvars, svars, pc, attempts, slept, spreadsheet, startup_error, pw, timer, main,
                   timed_out, refreshes>>

\* The timer fires: done(False, "Preloading timed out") if the preload
\* thread is running, which calls quit() and blocks in wait(); else nothing.
TimerFire ==
    /\ InEventLoop
    /\ timer = "armed"
    /\ timer' = "fired"
    /\ main' = IF pt_running THEN "timeout_wait" ELSE "idle"
    /\ UNCHANGED <<pvars, svars, pc, attempts, slept, spreadsheet, startup_error, win, dlg_open, pw,
                   pt_running, pq, boxes, timed_out, refreshes, last_done>>

\* wait() returns once PreloadWorker.run has returned; then dlg.accept() and
\* the "Preload Failed" box, whose event loop runs until it is closed
TimeoutBox ==
    /\ main = "timeout_wait"
    /\ pw.st = "returned"
    /\ main' = "idle"
    /\ pt_running' = FALSE
    /\ dlg_open' = FALSE
    /\ boxes' = boxes + 1
    /\ timed_out' = TRUE
    /\ last_done' = [flow |-> "timeout", failed |-> pw.failed,
                     dialog |-> TRUE, installed |-> FALSE]
    /\ UNCHANGED <<pvars, svars, pc, attempts, slept, spreadsheet, startup_error, win, pw, timer,
                   pq, refreshes>>

\* A "Preload Failed" box is closed: win.close(); return.  The signals that
\* were queued when the box opened are delivered before the user's click.
BoxClose ==
    /\ InEventLoop
    /\ boxes > 0
    /\ pq = <<>>
    /\ boxes' = boxes - 1
    /\ win' = [win EXCEPT !.visible = FALSE]
    /\ UNCHANGED <<pvars, svars, pc, attempts, slept, spreadsheet, startup_error, dlg_open, pw,
                   pt_running, timer, pq, main, timed_out, refreshes, last_done>>

\* dlg.exec() returns; return app.exec()
EnterAppExec ==
    /\ pc = "dlg_exec"
    /\ main = "idle"
    /\ ~dlg_open
    /\ boxes = 0
    /\ pc' = "app_exec"
    /\ UNCHANGED <<pvars, svars, attempts, slept, spreadsheet, startup_error, win, dlg_open, pw,
                   pt_running, timer, pq, main, boxes, timed_out, refreshes, last_done>>

\* the user can act on the window
UserCan == pc = "app_exec" /\ main = "idle" /\ boxes = 0 /\ win.visible

NewRefresh == [st |-> "running", ok |-> FALSE, failed |-> FALSE,
               res |-> [truthy |-> FALSE, cache |-> EmptyCache, data |-> <<>>]]

\* the window and the workers after refresh_data(force)
Refreshed(r) ==
    /\ win' = r.w
    /\ refreshes' = IF r.start THEN Append(refreshes, NewRefresh) ELSE refreshes

CallRefreshData(w, force) == Refreshed(refresh_data(w, force))

\* btn_refresh.clicked: refresh_data(force=True)
ClickRefresh ==
    /\ UserCan
    /\ win.controls_enabled
    /\ Len(refreshes) < MaxRefresh
    /\ CallRefreshData(win, TRUE)
    /\ UNCHANGED <<pvars, svars, pc, attempts, slept, spreadsheet, startup_error, dlg_open, pw,
                   pt_running, timer, pq, main, boxes, timed_out, last_done>>

\* the user picks another sport: on_sport_change, refresh_data(False)
SelectSport ==
    /\ UserCan
    /\ win.controls_enabled
    /\ Len(refreshes) < MaxRefresh
    /\ \E j \in 1..Len(win.sport_items) :
         /\ win.sport_items[j] # win.sport_current
         /\ CallRefreshData([win EXCEPT !.sport_current = win.sport_items[j]], FALSE)
    /\ UNCHANGED <<pvars, svars, pc, attempts, slept, spreadsheet, startup_error, dlg_open, pw,
                   pt_running, timer, pq, main, boxes, timed_out, last_done>>

\* the user picks the other bet type: on_bet_type_change, update_ev_only
SelectBetType ==
    /\ UserCan
    /\ win.controls_enabled
    /\ \E bt \in BetTypes :
         /\ bt # win.bettype
         /\ win' = update_ev_only([win EXCEPT !.bettype = bt])
    /\ UNCHANGED <<pvars, svars, pc, attempts, slept, spreadsheet, startup_error, dlg_open, pw,
                   pt_running, timer, pq, main, boxes, timed_out, refreshes, last_done>>

\* the user edits an odds entry: textChanged, recompute_comparison_inline
EditOdds ==
    /\ UserCan
    /\ win.controls_enabled
    /\ \E t \in AppEntryTexts :
         \/ t # win.entry_a /\ win' = Recompute([win EXCEPT !.entry_a = t])
         \/ t # win.entry_b /\ win' = Recompute([win EXCEPT !.entry_b = t])
    /\ UNCHANGED <<pvars, svars, pc, attempts, slept, spreadsheet, startup_error, dlg_open, pw,
                   pt_running, timer, pq, main, boxes, timed_out, refreshes, last_done>>

\* btn_compare.clicked: compare_by_odds
ClickCompare ==
    /\ UserCan
    /\ win.controls_enabled
    /\ win' = Recompute(win)
    /\ UNCHANGED <<pvars, svars, pc, attempts, slept, spreadsheet, startup_error, dlg_open, pw,
                   pt_running, timer, pq, main, boxes, timed_out, refreshes, last_done>>

\* RefreshWorker.run after the fetch returned r: what it emits with
\* finished, [ok, res], and whether the fetch had failed
Emitted(r, failed) ==
    IF r.exc
    THEN [st |-> "emitted", ok |-> FALSE, failed |-> TRUE,
          res |-> [truthy |-> FALSE, cache |-> EmptyCache, data |-> <<>>]]
    ELSE [st |-> "emitted", ok |-> TRUE, failed |-> failed,
          res |-> [truthy |-> TRUE, cache |-> process_bets_to_cache(r.val),
                   data |-> r.val]]

RefreshRun(ss) == Emitted(fetch_matchbet_data(ss), FetchFails(ss))

RefreshWorkerRun ==
    /\ \E i \in 1..Len(refreshes), ss \in AppSheets :
         /\ refreshes[i].st = "running"
         /\ refreshes' = [refreshes EXCEPT ![i] = RefreshRun(ss)]
    /\ UNCHANGED <<pvars, svars, pc, attempts, slept, spreadsheet, startup_error, win, dlg_open, pw,
                   pt_running, timer, pq, main, boxes, timed_out, last_done>>

\* the window and the history after _on_refresh_done returned r
Handled(r, failed) ==
    /\ win' = r.w
    /\ last_done' = [flow |-> "refresh", failed |-> failed,
                     dialog |-> r.dialog, installed |-> ~r.dialog]

\* _on_refresh_done called by the queued finished signal of a RefreshWorker
RefreshDone ==
    /\ InEventLoop
    /\ \E i \in 1..Len(refreshes) :
         /\ refreshes[i].st = "emitted"
         /\ Handled(on_refresh_done(win, refreshes[i].ok, refreshes[i].res),
                    refreshes[i].failed)
         /\ refreshes' = SubSeq(refreshes, 1, i - 1)
                           \o SubSeq(refreshes, i + 1, Len(refreshes))
    /\ UNCHANGED <<pvars, svars, pc, attempts, slept, spreadsheet, startup_error, dlg_open, pw,
                   pt_running, timer, pq, main, boxes, timed_out>>

Next ==
    \/ ConnectAttempt \/ Startup
    \/ PreloadFetch \/ PreloadProcess \/ PreloadDone
    \/ TimerFire \/ TimeoutBox \/ BoxClose \/ EnterAppExec
    \/ ClickRefresh \/ SelectSport \/ SelectBetType \/ EditOdds \/ ClickCompare
    \/ RefreshWorkerRun \/ RefreshDone

Spec == Init /\ [][Next]_vars

\* A queued finished signal of a RefreshWorker leaves the queue of the main
\* thread.  Of the steps of Next only RefreshDone is one of these, and it can
\* be taken exactly where this one can.
RefreshDelivery ==
    /\ InEventLoop
    /\ \E i \in 1..Len(refreshes) :
         /\ refreshes[i].st = "emitted"
         /\ refreshes' = SubSeq(refreshes, 1, i - 1)
                           \o SubSeq(refreshes, i + 1, Len(refreshes))

\* The worker thread runs RefreshWorker.run to its end and the event loop
\* of the main thread delivers the queued finished signal.
LiveSpec == Spec /\ WF_vars(RefreshWorkerRun) /\ WF_refreshes(RefreshDelivery)

-----------------------------------------------------------------------------
(* The pipeline specification: fetch_matchbet_data, process_bets_to_cache,  *)
(* fill_table and recompute_comparison_inline applied to every input.       *)

PInit ==
    /\ p_stage = "raw"
    /\ p_ss \in {Spreadsheet(o, rows) : o \in Outcomes, rows \in SeqsUpTo(RowSet, MaxRows)}
    /\ p_ret = [exc |-> FALSE, val |-> <<>>]
    /\ p_cache = EmptyCache
    /\ p_view = NoView
    /\ SIdle
    /\ AInitial

PFetch ==
    /\ p_stage = "raw"
    /\ p_ret' = fetch_matchbet_data(p_ss)
    /\ p_stage' = "fetched"
    /\ UNCHANGED <<p_ss, p_cache, p_view, avars, svars>>

PProcess ==
    /\ p_stage = "fetched"
    /\ ~p_ret.exc
    /\ p_cache' = process_bets_to_cache(p_ret.val)
    /\ p_stage' = "cached"
    /\ UNCHANGED <<p_ss, p_ret, p_view, avars, svars>>

PFill ==
    /\ p_stage = "cached"
    /\ \E s \in CacheSports(p_cache), bt \in BetTypes :
         p_view' = [NoView EXCEPT !.op = "fill", !.sport = s, !.bet_type = bt,
                                  !.rows = CacheGet(p_cache, s).rows,
                                  !.table = fill_table(CacheGet(p_cache, s).rows, bt)]
    /\ p_stage' = "viewed"
    /\ UNCHANGED <<p_ss, p_ret, p_cache, avars, svars>>

PCompare ==
    /\ p_stage = "cached"
    /\ \E s \in CacheSports(p_cache), bt \in BetTypes, ta \in EntryTexts, tb \in EntryTexts :
         p_view' = [NoView EXCEPT !.op = "compare", !.sport = s, !.bet_type = bt,
                                  !.cmp = recompute_comparison_inline(
                                              ta, tb, bt, CacheGet(p_cache, s).index, s)]
    /\ p_stage' = "viewed"
    /\ UNCHANGED <<p_ss, p_ret, p_cache, avars, svars>>

PNext == PFetch \/ PProcess \/ PFill \/ PCompare

PipelineSpec == PInit /\ [][PNext]_vars

-----------------------------------------------------------------------------
(* The statistics specification: normalize_tournament_name applied to every *)
(* title and again to its result, and show_statistics_panel applied to every *)
(* matchbet_data.                                                            *)

SInit ==
    /\ \/ /\ s_stage = "title"
          /\ s_title \in Titles
          /\ s_data = <<>>
       \/ /\ s_stage = "data"
          /\ s_title = EmptyText
          /\ s_data \in SeqsUpTo(StatBets, MaxBets)
    /\ s_norm = <<>>
    /\ s_panel = NoPanel
    /\ PIdle
    /\ AInitial

SNormalize ==
    /\ s_stage = "title"
    /\ s_norm' = <<normalize_tournament_name(s_title)>>
    /\ s_stage' = "once"
    /\ UNCHANGED <<s_title, s_data, s_panel, pvars, avars>>

SNormalizeAgain ==
    /\ s_stage = "once"
    /\ s_norm' = Append(s_norm, normalize_tournament_name(s_norm[1]))
    /\ s_stage' = "twice"
    /\ UNCHANGED <<s_title, s_data, s_panel, pvars, avars>>

SShowStatistics ==
    /\ s_stage = "data"
    /\ s_panel' = show_statistics_panel(s_data)
    /\ s_stage' = "shown"
    /\ UNCHANGED <<s_title, s_norm, s_data, pvars, avars>>

SNext == SNormalize \/ SNormalizeAgain \/ SShowStatistics

StatsSpec == SInit /\ [][SNext]_vars

-----------------------------------------------------------------------------
(* Claims on the pipeline *)

C1_Cell(r, i) == IF i <= Len(r) THEN r[i] ELSE EmptyText

C1_OddsOf(r) == ParseFloat(replace(strip(C1_Cell(r, 6)), ",", "."))

C1_Accepts(r) ==
    /\ strip(C1_Cell(r, 1)) # EmptyText
    /\ strip(C1_Cell(r, 8)) # EmptyText
    /\ C1_OddsOf(r).ok

C1_Record(r) ==
    <<strip(C1_Cell(r, 1)), strip(C1_Cell(r, 2)), strip(C1_Cell(r, 3)),
      strip(C1_Cell(r, 4)), strip(C1_Cell(r, 5)), C1_OddsOf(r).val,
      strip(C1_Cell(r, 8))>>

C1_Kept(raw) == {i \in 1..Len(raw) : C1_Accepts(raw[i])}

\* the source row of the j-th record
C1_Source(raw, j) ==
    CHOOSE i \in C1_Kept(raw) : Cardinality({h \in C1_Kept(raw) : h <= i}) = j

C1_Padded(r) == [i \in 1..8 |-> C1_Cell(r, i)]

C1_Alone(r) == fetch_matchbet_data([p_ss EXCEPT !.rows = <<r>>])

\* C1: when the range is fetched, the output of fetch_matchbet_data holds
\* exactly one record per raw row whose trimmed sport and result are not
\* empty and whose odds cell parses as a float with ',' read as '.', in the
\* order of the rows and built from the trimmed cells; no other row gives a
\* record or an error; and a row of fewer than 8 cells gives what the same
\* row padded to 8 cells gives.
C1_IngestionFilter ==
    (p_stage # "raw" /\ ~FetchFails(p_ss)) =>
        LET raw == p_ss.rows
            out == p_ret.val
        IN  /\ ~p_ret.exc
            /\ Len(out) = Cardinality(C1_Kept(raw))
            /\ \A j \in 1..Len(out) : out[j] = C1_Record(raw[C1_Source(raw, j)])
            /\ \A i \in 1..Len(raw) :
                 Len(raw[i]) < 8 => C1_Alone(raw[i]) = C1_Alone(C1_Padded(raw[i]))

\* a short row and an accepted row fetched together, one record out
C1_Witness ==
    /\ p_stage = "fetched"
    /\ ~FetchFails(p_ss)
    /\ Len(p_ss.rows) = 2
    /\ \E i \in 1..2 : Len(p_ss.rows[i]) \in 1..7
    /\ Len(p_ret.val) = 1

\* C2: every record fetch_matchbet_data emits has odds that are a finite
\* positive number.
C2_OddsFinitePositive ==
    p_stage # "raw" =>
        \A j \in 1..Len(p_ret.val) :
            p_ret.val[j][6].k = "fin" /\ p_ret.val[j][6].n > 0

\* C3: when the worksheet cannot be opened, or get and batch_get both fail,
\* fetch_matchbet_data lets no exception out and returns the empty list,
\* which is what it returns for a sheet with no rows.
C3_FetchFailureIsEmpty ==
    (p_stage # "raw" /\ FetchFails(p_ss)) =>
        /\ ~p_ret.exc
        /\ p_ret.val = <<>>
        /\ p_ret = fetch_matchbet_data(
                       [wsOk |-> TRUE, getOk |-> TRUE, batchOk |-> TRUE, rows |-> <<>>])

\* a failed fetch of a sheet that holds a row ingestion would keep
C3_Witness ==
    /\ p_stage = "fetched"
    /\ FetchFails(p_ss)
    /\ C1_Kept(p_ss.rows) # {}

C9_IsLive(status) ==
    Contains(upper(status), T_LIVE) /\ ~Contains(upper(status), T_NOT)

\* the bets of p_ret.val that fall in bucket (sport, k)
C9_Bucket(sport, k) ==
    {i \in 1..Len(p_ret.val) :
        /\ p_ret.val[i][1] = sport
        /\ KeyObject(round_odds_key(p_ret.val[i][6]), i) = k}

C9_Total(sport, k, live) ==
    Cardinality({i \in C9_Bucket(sport, k) : C9_IsLive(p_ret.val[i][5]) = live})

C9_Wins(sport, k, live) ==
    Cardinality({i \in C9_Bucket(sport, k) :
                    /\ C9_IsLive(p_ret.val[i][5]) = live
                    /\ lower(p_ret.val[i][7]) = T_win})

C9_Category(wr, cnt, wins, total) ==
    /\ IsNone(wr) <=> total = 0
    /\ IsNone(cnt) <=> total = 0
    /\ total > 0 =>
         /\ wr.k = "fin"
         /\ wr.n * total = wins * wr.d
         /\ 0 <= wr.n /\ wr.n <= wr.d
         /\ cnt = PyInt(total)

C9_Tuple(sport, k, t) ==
    /\ C9_Category(t[1], t[3], C9_Wins(sport, k, TRUE), C9_Total(sport, k, TRUE))
    /\ C9_Category(t[2], t[4], C9_Wins(sport, k, FALSE), C9_Total(sport, k, FALSE))

\* C9: in the output of process_bets_to_cache, for every sport, odds key and
\* category, the win-rate is None exactly when the category's total is 0,
\* the count is None (not 0) exactly then, and for a total above 0 the
\* win-rate is wins/total, within [0,1], and the count is the total.
C9_WinRateAndCount ==
    p_stage \in {"cached", "viewed"} =>
        \A j \in 1..Len(p_cache) :
            /\ \A r \in 1..Len(p_cache[j].rows) :
                 LET row == p_cache[j].rows[r]
                 IN  C9_Tuple(p_cache[j].sport, row[1], SubSeq(row, 2, 5))
            /\ \A k \in DOMAIN p_cache[j].index :
                 C9_Tuple(p_cache[j].sport, k, p_cache[j].index[k])

\* a bucket with one win in two live bets and no prematch bet
C9_Witness ==
    /\ p_stage = "cached"
    /\ \E j \in 1..Len(p_cache) : \E r \in 1..Len(p_cache[j].rows) :
         LET row == p_cache[j].rows[r]
         IN  /\ row[2] = Fin(1, 2) /\ row[4] = PyInt(2)
             /\ IsNone(row[3]) /\ IsNone(row[5])

\* wr * odds - 1.0, with 0 * odds taken as 0 whatever the odds
C10_Value(wr, odds) ==
    IF wr.n = 0 THEN Fin(-1, 1)
    ELSE IF odds.k = "fin" THEN Fin(wr.n * odds.n - wr.d * odds.d, wr.d * odds.d)
    ELSE IF odds.k = "inf" THEN Inf(odds.n)
    ELSE NaN(0)

C10_Ev(wr, odds, ev) ==
    /\ IsNone(ev) <=> (IsNone(wr) \/ IsNone(odds))
    /\ (~IsNone(wr) /\ ~IsNone(odds)) => ev = C10_Value(wr, odds)

\* C10: the EV that fmt_ev and the comparison compute is wr*odds - 1.0 when
\* the win-rate and the odds are present, and None (shown as "N/A") exactly
\* when one of them is None; a win-rate of 0 gives the EV -1.0.
C10_EvDefinition ==
    /\ p_view.op = "fill" =>
         \A j \in 1..Len(p_view.rows) :
            LET row == p_view.rows[j]
                wr  == IF p_view.bet_type = "Live" THEN row[2] ELSE row[3]
            IN  /\ C10_Ev(wr, row[1], p_view.table[j].ev_val)
                /\ (p_view.table[j].ev = NAText) <=> IsNone(p_view.table[j].ev_val)
    /\ p_view.op = "compare" =>
         /\ C10_Ev(p_view.cmp.wr_a, p_view.cmp.odds_a, p_view.cmp.ev_a)
         /\ C10_Ev(p_view.cmp.wr_b, p_view.cmp.odds_b, p_view.cmp.ev_b)
-----------------------------------------------------------------------------
(* Claims on the application *)

\* C4: when the fetch of a preload or of a refresh failed, the handler of
\* that completion shows its error dialog and installs nothing.
C4_FetchFailureShowsDialog ==
    (last_done.flow \in {"preload", "refresh"} /\ last_done.failed) =>
        (last_done.dialog /\ ~last_done.installed)

\* C5: after the time-out has shown its failure box, the delivery of the
\* preload worker's completion signal leaves the main window as it was.
C5_LateCompletionIgnored ==
    [][(timed_out /\ pq # <<>> /\ pq' = Tail(pq)) => win' = win]_vars

\* C6: whenever the main thread is between handlers, data_cache is
\* process_bets_to_cache of matchbet_data.
C6_CacheMatchesData ==
    main = "idle" => win.data_cache = process_bets_to_cache(win.matchbet_data)

\* a refresh has replaced the pair by one made from a sheet with bets
C6_Witness ==
    /\ main = "idle"
    /\ last_done.flow = "refresh"
    /\ last_done.installed
    /\ win.matchbet_data # <<>>
    /\ win.data_cache # EmptyCache

\* C7: while a RefreshWorker's _on_refresh_done has not run the controls are
\* disabled and no second worker exists; a worker only leaves by its
\* _on_refresh_done, which enables the controls; and every worker started
\* leads to that.
C7_RefreshDisablesControls ==
    /\ [](refreshes # <<>> => ~win.controls_enabled)
    /\ [](Len(refreshes) <= 1)
    /\ [][Len(refreshes') < Len(refreshes) =>
            (win'.controls_enabled /\ last_done'.flow = "refresh")]_vars
    /\ (refreshes # <<>>) ~> (refreshes = <<>> /\ win.controls_enabled)

\* a refresh has ended and the controls are enabled again
C7_Witness ==
    /\ last_done.flow = "refresh"
    /\ refreshes = <<>>
    /\ win.controls_enabled
    /\ win.status = "Ready"

C8_Failures == attempts - (IF spreadsheet THEN 1 ELSE 0)

C8_Min(a, b) == IF a < b THEN a ELSE b

\* C8: at most 3 attempts, none after a success, one delay after each failed
\* attempt but the third, and after three failures the start-up error and
\* no window, no preload worker, no timer and no event loop.
C8_StartupConnection ==
    /\ attempts <= 3
    /\ pc = "connect" => (~spreadsheet /\ attempts < 3)
    /\ spreadsheet => pc # "exit"
    /\ slept = RetryDelay * C8_Min(C8_Failures, 2)
    /\ (pc # "connect" /\ ~spreadsheet) =>
          /\ attempts = 3
          /\ ~win.created
          /\ pw.st = "none"
          /\ ~pt_running
          /\ timer = "none"
          /\ pc \in {"after_loop", "exit"}
    /\ pc = "exit" <=> startup_error

\* three attempts failed and the start-up error was reported
C8_Witness ==
    /\ startup_error
    /\ attempts = 3
    /\ slept = 2 * RetryDelay
    /\ pc = "exit"

-----------------------------------------------------------------------------
(* Claims on the odds comparison *)

\* a == b on floats: a NaN equals nothing
C11_FloatEq(a, b) == a.k # "nan" /\ b.k # "nan" /\ a = b

\* the comparison computed had both odds in the index
C11_BothFound == p_view.op = "compare" /\ p_view.cmp.branch = "both_found"

\* C11: when both sides have a win-rate, the verdict is the one the two EVs
\* give: a is better exactly when ev_a > ev_b, b exactly when ev_b > ev_a,
\* equal exactly when ev_a == ev_b.
C11_VerdictFollowsEv ==
    (C11_BothFound /\ ~IsNone(p_view.cmp.wr_a) /\ ~IsNone(p_view.cmp.wr_b)) =>
        /\ p_view.cmp.text.kind = "verdict"
        /\ p_view.cmp.text.better = "a" <=> FloatLt(p_view.cmp.ev_b, p_view.cmp.ev_a)
        /\ p_view.cmp.text.better = "b" <=> FloatLt(p_view.cmp.ev_a, p_view.cmp.ev_b)
        /\ p_view.cmp.text.better = "equal" <=> C11_FloatEq(p_view.cmp.ev_a, p_view.cmp.ev_b)

\* the index the comparison looked its keys up in
C12_Index == CacheGet(p_cache, p_view.sport).index

\* a comparison was computed on two entries float() accepted
C12_Compared == p_view.op = "compare" /\ p_view.cmp.branch # "invalid"

\* the key of odds is absent from the index
C12_Absent(odds) == round_odds_key(odds) \notin DOMAIN C12_Index

\* the win-rate and the count of the bet type in the index tuple of odds
C12_Wr(odds) ==
    IF p_view.bet_type = "Live" THEN C12_Index[round_odds_key(odds)][1]
    ELSE C12_Index[round_odds_key(odds)][2]

C12_Cnt(odds) ==
    IF p_view.bet_type = "Live" THEN C12_Index[round_odds_key(odds)][3]
    ELSE C12_Index[round_odds_key(odds)][4]

\* the text for odds absent not found and odds present found, whose EV the
\* comparison holds as ev
C12_Text(absent, present, ev, text) ==
    /\ text.kind \in {"not_found_ev", "not_found_no_wr"}
    /\ text.named[1] = Fmt2(absent)
    /\ text.better = ""
    /\ IF IsNone(C12_Wr(present))
       THEN /\ text.kind = "not_found_no_wr"
            /\ text.named = <<Fmt2(absent), Fmt2(present)>>
            /\ text.label = p_view.bet_type
            /\ text.lines = <<>>
       ELSE /\ text.kind = "not_found_ev"
            /\ text.named = <<Fmt2(absent)>>
            /\ ev = FloatSubOne(FloatMul(C12_Wr(present), present))
            /\ text.lines = <<[odds |-> Fmt2(present), ev |-> FmtPct(ev),
                               wr |-> FmtPct(C12_Wr(present)),
                               cnt |-> FmtCount(C12_Cnt(present))]>>

\* C12: when exactly one of the two odds keys is absent from the index, the
\* text names the absent odds as not found; for the present odds it shows the
\* EV, the win-rate and the count when the win-rate of the selected bet type
\* is available, and otherwise says that the present odds lack data for that
\* bet type; no EV is computed or shown for the absent side.
C12_OneNotFound ==
    C12_Compared =>
        /\ (C12_Absent(p_view.cmp.odds_a) /\ ~C12_Absent(p_view.cmp.odds_b)) =>
              /\ C12_Text(p_view.cmp.odds_a, p_view.cmp.odds_b, p_view.cmp.ev_b,
                          p_view.cmp.text)
              /\ IsNone(p_view.cmp.ev_a)
        /\ (C12_Absent(p_view.cmp.odds_b) /\ ~C12_Absent(p_view.cmp.odds_a)) =>
              /\ C12_Text(p_view.cmp.odds_b, p_view.cmp.odds_a, p_view.cmp.ev_a,
                          p_view.cmp.text)
              /\ IsNone(p_view.cmp.ev_b)

\* odds a absent, odds b present with a win-rate: its EV line is shown
C12_Witness ==
    /\ C12_Compared
    /\ C12_Absent(p_view.cmp.odds_a) /\ ~C12_Absent(p_view.cmp.odds_b)
    /\ ~IsNone(C12_Wr(p_view.cmp.odds_b))
    /\ Len(p_view.cmp.text.lines) = 1

\* both odds keys are in the index
C13_BothPresent ==
    C12_Compared /\ ~C12_Absent(p_view.cmp.odds_a) /\ ~C12_Absent(p_view.cmp.odds_b)

\* the text holds a value made by arithmetic on None
C13_Raised(text) ==
    \/ \E j \in 1..Len(text.named) : text.named[j].k = "TypeError"
    \/ \E j \in 1..Len(text.lines) :
          \/ text.lines[j].odds.k = "TypeError"
          \/ text.lines[j].ev.k = "TypeError"
          \/ text.lines[j].wr.k = "TypeError"

\* the text for odds missing, whose win-rate is absent, and the other odds,
\* whose EV the comparison holds as ev
C13_Text(missing, other, ev, text) ==
    /\ text.better = ""
    /\ text.label = (IF p_view.bet_type = "Live" THEN "Live" ELSE "Prematch")
    /\ IF IsNone(C12_Wr(other))
       THEN /\ text.kind = "both_missing_wr"
            /\ text.named = <<Fmt2(p_view.cmp.odds_a), Fmt2(p_view.cmp.odds_b)>>
            /\ text.lines = <<>>
       ELSE /\ text.kind = "missing_wr"
            /\ text.named = <<Fmt2(missing)>>
            /\ text.lines = <<[odds |-> Fmt2(other), ev |-> FmtPct(ev),
                               wr |-> FmtPct(C12_Wr(other)),
                               cnt |-> FmtCount(C12_Cnt(other))]>>

\* C13: when both odds keys are in the index, a side whose win-rate for the
\* bet type is absent is reported as missing its WR and gets no EV and no
\* better/equal verdict, and no branch of render_compare does arithmetic on
\* an absent win-rate or EV.
C13_MissingWrNoEv ==
    C13_BothPresent =>
        /\ IsNone(C12_Wr(p_view.cmp.odds_a)) =>
              /\ IsNone(p_view.cmp.ev_a)
              /\ C13_Text(p_view.cmp.odds_a, p_view.cmp.odds_b, p_view.cmp.ev_b,
                          p_view.cmp.text)
        /\ IsNone(C12_Wr(p_view.cmp.odds_b)) =>
              /\ IsNone(p_view.cmp.ev_b)
              /\ C13_Text(p_view.cmp.odds_b, p_view.cmp.odds_a, p_view.cmp.ev_a,
                          p_view.cmp.text)
        /\ ~C13_Raised(p_view.cmp.text)
        /\ p_view.cmp.ev_a # TypeError /\ p_view.cmp.ev_b # TypeError

\* both keys found, a without a win-rate, b with one: b's EV line only
C13_Witness ==
    /\ C13_BothPresent
    /\ IsNone(C12_Wr(p_view.cmp.odds_a)) /\ ~IsNone(C12_Wr(p_view.cmp.odds_b))
    /\ p_view.cmp.text.kind = "missing_wr"
    /\ Len(p_view.cmp.text.lines) = 1

\* the text shows the EV of the side with these odds and this EV, and the
\* count of the odds for the bet type is exactly 1
C14_SingleShown(odds, ev) ==
    /\ ~C12_Absent(odds)
    /\ ~IsNone(ev)
    /\ C12_Cnt(odds) = PyInt(1)

\* the text has the note on the single count of odds, and its EV lines
C14_Noted(odds, text) ==
    /\ \E j \in 1..Len(text.notes) : text.notes[j] = Fmt2(odds)
    /\ Len(text.lines) >= 1

\* C14: whenever the text shows the EV of a side whose count for the bet
\* type is exactly 1, it carries the note on that side's single count and
\* still shows the EV lines, whether both odds were found or only one.
C14_SingleCountNote ==
    C12_Compared =>
        /\ C14_SingleShown(p_view.cmp.odds_a, p_view.cmp.ev_a) =>
              C14_Noted(p_view.cmp.odds_a, p_view.cmp.text)
        /\ C14_SingleShown(p_view.cmp.odds_b, p_view.cmp.ev_b) =>
              C14_Noted(p_view.cmp.odds_b, p_view.cmp.text)

-----------------------------------------------------------------------------
(* Claims on the statistics view and the tournament names *)

\* the sport a bet is shown under
C15_Sport(bet) == IF bet[1] = <<"C","S","t","w","o">> THEN <<"C","S","2">> ELSE bet[1]

\* the bets of matchbet_data that belong to the node (sport, name)
C15_Bets(sport, name) ==
    { i \in 1..Len(s_data) :
        /\ C15_Sport(s_data[i]) = sport
        /\ s_data[i][2] # <<>>
        /\ normalize_tournament_name(s_data[i][2]) = name }

C15_Wins(sport, name) ==
    { i \in C15_Bets(sport, name) : lower(s_data[i][7]) = <<"w","i","n">> }

\* the bets that belong to some node
C15_Visible ==
    { i \in 1..Len(s_data) :
        /\ s_data[i][1] # <<>>
        /\ s_data[i][2] # <<>>
        /\ normalize_tournament_name(s_data[i][2]) # <<>> }

\* the nodes of stats: (j, k) is the k-th tournament of the j-th sport
C15_Nodes ==
    { <<j, k>> \in (1..MaxBets) \X (1..MaxBets) :
        j <= Len(s_panel.stats) /\ k <= Len(s_panel.stats[j].tourneys) }

C15_NodeTotals ==
    SumOf([j \in 1..Len(s_panel.stats) |->
              [total |-> SumOf(s_panel.stats[j].tourneys, "total")]], "total")

\* C15: in the statistics view, with the sport "CStwo" taken as "CS2", every
\* (sport, normalized tournament) node has as total the number of bets of
\* that sport whose tournament is not empty and normalizes to that name,
\* which is not empty, and as wins the number of those whose lower-cased
\* result is "win"; a bet with an empty tournament or an empty normalized
\* name is in no node; "Total Bets" is the sum of the node totals.
C15_StatisticsAggregation ==
    s_stage = "shown" =>
        /\ \A n \in C15_Nodes :
              /\ s_panel.stats[n[1]].tourneys[n[2]].name # <<>>
              /\ s_panel.stats[n[1]].tourneys[n[2]].total =
                    Cardinality(C15_Bets(s_panel.stats[n[1]].sport,
                                         s_panel.stats[n[1]].tourneys[n[2]].name))
              /\ s_panel.stats[n[1]].tourneys[n[2]].wins =
                    Cardinality(C15_Wins(s_panel.stats[n[1]].sport,
                                         s_panel.stats[n[1]].tourneys[n[2]].name))
              /\ \A m \in C15_Nodes :
                    (/\ s_panel.stats[m[1]].sport = s_panel.stats[n[1]].sport
                     /\ s_panel.stats[m[1]].tourneys[m[2]].name =
                           s_panel.stats[n[1]].tourneys[n[2]].name) => m = n
        /\ \A i \in C15_Visible : \E n \in C15_Nodes :
              /\ s_panel.stats[n[1]].sport = C15_Sport(s_data[i])
              /\ s_panel.stats[n[1]].tourneys[n[2]].name =
                    normalize_tournament_name(s_data[i][2])
        /\ s_panel.total_bets = C15_NodeTotals
        /\ s_panel.total_bets = Cardinality(C15_Visible)
        /\ \A j \in 1..Len(s_panel.tree) : \E t \in 1..Len(s_panel.stats) :
              /\ s_panel.tree[j].text = s_panel.stats[t].sport
              /\ Len(s_panel.tree[j].children) = Len(s_panel.stats[t].tourneys)
              /\ \A c \in 1..Len(s_panel.tree[j].children) :
                    \E k \in 1..Len(s_panel.stats[t].tourneys) :
                       /\ s_panel.tree[j].children[c].text = s_panel.stats[t].tourneys[k].name
                       /\ s_panel.tree[j].children[c].count = s_panel.stats[t].tourneys[k].total
        /\ Len(s_panel.tree) = Len(s_panel.stats)

\* a "CStwo" bet and a "CS2" bet in one node of total 2, and a bet in no node
C15_Witness ==
    /\ s_stage = "shown"
    /\ \E n \in C15_Nodes :
          /\ s_panel.stats[n[1]].tourneys[n[2]].total = 2
          /\ \E i, j \in C15_Bets(s_panel.stats[n[1]].sport,
                                  s_panel.stats[n[1]].tourneys[n[2]].name) :
                s_data[i][1] # s_data[j][1]

\* C16: normalize_tournament_name is idempotent: applied to its own result
\* it returns that result.
C16_NormalizeIdempotent ==
    s_stage = "twice" => s_norm[2] = s_norm[1]

-----------------------------------------------------------------------------
(* Claims on the aggregation engine *)

\* the uppercased status contains "LIVE" and does not contain "NOT"
C17_Live(bet) ==
    /\ Contains(upper(bet[5]), <<"L","I","V","E">>)
    /\ ~Contains(upper(bet[5]), <<"N","O","T">>)

\* the bets returned by fetch_matchbet_data that have this sport and key (the
\* NaN key of the i-th bet is a key of its own)
C17_Bets(sport, k) ==
    { i \in 1..Len(p_ret.val) :
        p_ret.val[i][1] = sport /\ KeyObject(round_odds_key(p_ret.val[i][6]), i) = k }

\* a count of a row: None stands for no bet
C17_Count(c) == IF IsNone(c) THEN 0 ELSE c.n

\* C17: a bet is counted as live exactly when its status, uppercased,
\* contains "LIVE" and does not contain "NOT", and as prematch otherwise;
\* every bet is counted in exactly one of the live total and the prematch
\* total of the bucket of its sport and odds key.
C17_LiveClassification ==
    p_stage = "cached" =>
        /\ \A j \in 1..Len(p_cache) : \A r \in 1..Len(p_cache[j].rows) :
              /\ C17_Count(p_cache[j].rows[r][4]) =
                    Cardinality({ i \in C17_Bets(p_cache[j].sport, p_cache[j].rows[r][1]) :
                                    C17_Live(p_ret.val[i]) })
              /\ C17_Count(p_cache[j].rows[r][5]) =
                    Cardinality({ i \in C17_Bets(p_cache[j].sport, p_cache[j].rows[r][1]) :
                                    ~C17_Live(p_ret.val[i]) })
              /\ C17_Count(p_cache[j].rows[r][4]) + C17_Count(p_cache[j].rows[r][5]) =
                    Cardinality(C17_Bets(p_cache[j].sport, p_cache[j].rows[r][1]))
        /\ \A i \in 1..Len(p_ret.val) :
              \E j \in 1..Len(p_cache) : \E r \in 1..Len(p_cache[j].rows) :
                 i \in C17_Bets(p_cache[j].sport, p_cache[j].rows[r][1])

\* a "Live" bet and a "Not Live" bet in one bucket: one live, one prematch
C17_Witness ==
    /\ p_stage = "cached"
    /\ \E j \in 1..Len(p_cache) : \E r \in 1..Len(p_cache[j].rows) :
          /\ p_cache[j].rows[r][4] = PyInt(1)
          /\ p_cache[j].rows[r][5] = PyInt(1)
          /\ \E i \in C17_Bets(p_cache[j].sport, p_cache[j].rows[r][1]) :
                p_ret.val[i][5] = <<"N","o","t"," ","L","i","v","e">>

\* the bets of the bucket and category whose lower-cased result is "win"
C18_Wins(sport, k, live) ==
    { i \in C17_Bets(sport, k) :
        C17_Live(p_ret.val[i]) = live /\ lower(p_ret.val[i][7]) = <<"w","i","n">> }

\* wr and cnt of one category say that wins of its cnt bets were won
C18_Category(wr, cnt, wins) ==
    /\ 0 <= wins /\ wins <= C17_Count(cnt)
    /\ IsNone(wr) => wins = 0
    /\ ~IsNone(wr) => wr = Fin(wins, C17_Count(cnt))

\* C18: a bet is counted as a win exactly when its result, lower-cased,
\* equals "win"; a bet with another result is counted in the total of its
\* category only, so that 0 <= wins <= total in every bucket and category.
C18_WinCounting ==
    p_stage = "cached" =>
        \A j \in 1..Len(p_cache) : \A r \in 1..Len(p_cache[j].rows) :
            /\ C18_Category(p_cache[j].rows[r][2], p_cache[j].rows[r][4],
                  Cardinality(C18_Wins(p_cache[j].sport, p_cache[j].rows[r][1], TRUE)))
            /\ C18_Category(p_cache[j].rows[r][3], p_cache[j].rows[r][5],
                  Cardinality(C18_Wins(p_cache[j].sport, p_cache[j].rows[r][1], FALSE)))

\* a "Win" and a "Loss" in one category: one win in a total of two
C18_Witness ==
    /\ p_stage = "cached"
    /\ \E j \in 1..Len(p_cache) : \E r \in 1..Len(p_cache[j].rows) :
          /\ Cardinality(C18_Wins(p_cache[j].sport, p_cache[j].rows[r][1], TRUE)) = 1
          /\ p_cache[j].rows[r][4] = PyInt(2)
          /\ \E i \in C18_Wins(p_cache[j].sport, p_cache[j].rows[r][1], TRUE) :
                p_ret.val[i][7] = <<"W","i","n">>

\* the odds keys of the rows
C19_RowKeys(rows) == { rows[r][1] : r \in 1..Len(rows) }

\* C19: in every SheetCacheEntry of process_bets_to_cache the rows are in
\* strictly ascending order of their odds keys, so that no key is repeated,
\* the keys of the index are the keys of the rows, and the index maps the
\* key of every row to the rest of the row.
C19_RowsAndIndex ==
    p_stage = "cached" =>
        \A j \in 1..Len(p_cache) :
            /\ \A r \in 1..(Len(p_cache[j].rows) - 1) :
                  FloatLt(p_cache[j].rows[r][1], p_cache[j].rows[r + 1][1])
            /\ DOMAIN p_cache[j].index = C19_RowKeys(p_cache[j].rows)
            /\ \A r \in 1..Len(p_cache[j].rows) :
                  p_cache[j].index[p_cache[j].rows[r][1]] = SubSeq(p_cache[j].rows[r], 2, 5)

-----------------------------------------------------------------------------
(* Claims on the window's view of the cache *)

\* C20: whenever the main thread is idle, odds_index and current_rows are
\* the index and the rows of the selected sport in data_cache, and they are
\* empty when data_cache has no sport.
C20_ViewOfCurrentCache ==
    (win.created /\ main = "idle") =>
        IF win.sport_current \in CacheSports(win.data_cache)
        THEN /\ win.odds_index = CacheGet(win.data_cache, win.sport_current).index
             /\ win.current_rows = CacheGet(win.data_cache, win.sport_current).rows
        ELSE /\ win.data_cache = EmptyCache
             /\ win.odds_index = <<>>
             /\ win.current_rows = <<>>

-----------------------------------------------------------------------------
(* The table specification: a fetched sheet is aggregated and installed in   *)
(* a new window by set_initial_cache, and the user then changes the bet      *)
(* type any number of times (update_ev_only).                                *)

O_18512 == <<"1",".","8","5","1","2">>

TableRowSet ==
    { FullRow(S_CS2, L_Live, O_18512, R_Win),
      FullRow(S_CS2, L_NotLive, O_18512, R_Loss),
      FullRow(S_CS2, L_Live, O_185c, R_Win),
      FullRow(S_CS2, L_Live, O_185c, R_Loss),
      FullRow(S_CS2, L_NotLive, O_21, R_Win) }

TInit ==
    /\ p_stage = "raw"
    /\ p_ss \in {Spreadsheet(o, rows) : o \in Outcomes, rows \in SeqsUpTo(TableRowSet, MaxRows)}
    /\ p_ret = [exc |-> FALSE, val |-> <<>>]
    /\ p_cache = EmptyCache
    /\ p_view = NoView
    /\ SIdle
    /\ AInitial

\* MainWindow(spreadsheet); set_initial_cache(cache)
TShow ==
    /\ p_stage = "cached"
    /\ win' = set_initial_cache(NewWindow, p_cache)
    /\ p_stage' = "shown"
    /\ UNCHANGED <<p_ss, p_ret, p_cache, p_view, svars, pc, attempts, slept, spreadsheet,
                   startup_error, dlg_open, pw, pt_running, timer, pq, main, boxes,
                   timed_out, refreshes, last_done>>

\* bettype_combo.currentTextChanged: update_ev_only
TBetType ==
    /\ p_stage \in {"shown", "updated"}
    /\ \E bt \in BetTypes :
         /\ bt # win.bettype
         /\ win' = update_ev_only([win EXCEPT !.bettype = bt])
    /\ p_stage' = "updated"
    /\ UNCHANGED <<p_ss, p_ret, p_cache, p_view, svars, pc, attempts, slept, spreadsheet,
                   startup_error, dlg_open, pw, pt_running, timer, pq, main, boxes,
                   timed_out, refreshes, last_done>>

TNext == PFetch \/ PProcess \/ TShow \/ TBetType

TableSpec == TInit /\ [][TNext]_vars

-----------------------------------------------------------------------------
(* Claims on the table under a change of bet type *)

\* the EV cell fill_table gives the cached row for the bet type
C21_FillEv(row, bt) == fmt_ev(IF bt = "Live" THEN row[2] ELSE row[3], row[1])

\* the same EV text and the same EV value (both None, or equal floats)
C21_SameEv(cell, ev) ==
    /\ cell.ev = ev[1]
    /\ IF IsNone(ev[2]) THEN IsNone(cell.ev_val)
       ELSE ~IsNone(cell.ev_val) /\ cell.ev_val.k = ev[2].k
            /\ (ev[2].k # "nan" => cell.ev_val = ev[2])

\* C21: after a change of bet type (update_ev_only) every table row has the
\* EV text and the EV value that fill_table computes for that row from the
\* cached row tuple and the selected bet type.
C21_UpdateMatchesFill ==
    p_stage = "updated" =>
        /\ Len(win.table) = Len(win.current_rows)
        /\ \A j \in 1..Len(win.table) :
              C21_SameEv(win.table[j], C21_FillEv(win.current_rows[j], win.bettype))

-----------------------------------------------------------------------------
(* Claims on the conservation of observations *)

\* the number of input records of the sport
C22_Records(sport) ==
    Cardinality({i \in 1..Len(p_ret.val) : p_ret.val[i][1] = sport})

\* get_sorted_sports lists the sports by that number, largest first
C22_Descending(sports) ==
    \A i \in 1..Len(sports) : \A j \in i..Len(sports) :
        C22_Records(sports[i]) >= C22_Records(sports[j])

\* C22: for every sport of the cache the live and prematch counts of its
\* rows (None as 0), the figure get_sorted_sports orders by, add up to the
\* number of input records of that sport; the sports of the cache are the
\* sports of the input, and no sport has an empty row list.
C22_Conservation ==
    p_stage = "cached" =>
        /\ \A j \in 1..Len(p_cache) :
              /\ count_bets(p_cache[j].rows) = C22_Records(p_cache[j].sport)
              /\ p_cache[j].rows # <<>>
        /\ CacheSports(p_cache) = {p_ret.val[i][1] : i \in 1..Len(p_ret.val)}
        /\ C22_Descending(get_sorted_sports(p_cache))

\* a cache row that holds a live and a prematch record of the same sport
C22_Witness ==
    /\ p_stage = "cached"
    /\ \E j \in 1..Len(p_cache) :
          /\ count_bets(p_cache[j].rows) = 2
          /\ \E r \in 1..Len(p_cache[j].rows) :
                ~IsNone(p_cache[j].rows[r][4]) /\ ~IsNone(p_cache[j].rows[r][5])

-----------------------------------------------------------------------------
(* Claims on the resolution of the initial preload *)

\* done has run: only done accepts the preload dialog
C23_Resolved == pc \in {"dlg_exec", "app_exec"} /\ ~dlg_open

\* a step in which done applies its effects: called by the finished signal,
\* or called by the timer once wait() has returned
C23_DoneApplies ==
    \/ pq # <<>> /\ pq' = Tail(pq)
    \/ main = "timeout_wait" /\ main' = "idle"

\* the timer fires after the worker's completion has resolved the preload
C23_LateTimer == C23_Resolved /\ ~timed_out /\ timer = "armed" /\ timer' = "fired"

\* C23: done applies its effects (install the cache and show the window, or
\* show the failure box and close the window) at most once per start-up, and
\* the timer firing after the worker's completion has resolved the preload
\* changes neither the window nor the boxes and reports no time-out.
C23_ResolvedOnce ==
    [][/\ C23_DoneApplies => ~C23_Resolved
       /\ C23_LateTimer => /\ main' = "idle"
                           /\ UNCHANGED <<win, boxes, dlg_open, timed_out, last_done>>]_vars

=============================================================================
